---- MODULE Spec2Model ----
(***************************************************************************)
(* Code-Nebula: the graph loader (pipeline/insert_graph.py) and the ETL    *)
(* orchestrator (pipeline/run_etl.py) with the archiver it calls.          *)
(*                                                                         *)
(* File names are modelled by the "_"-separated parts of their stem, so    *)
(* that the renaming done by the phases and the split("_") done by the     *)
(* loader are computed, not assumed.  A uid is the sequence of the         *)
(* ":"-separated components of the string the code formats.                *)
(***************************************************************************)
EXTENDS Integers, Sequences, FiniteSets, TLC

VARIABLES
    nodes,          \* graph store: the rows created by .save(), in creation order
    edges,          \* graph store: the relationships created by .connect()
    curated,        \* curated/: the enriched JSON files on disk
    ingestCalls,    \* number of calls of ingest_enriched_json so far
    lastIngest,     \* the curated/ listing the previous directory ingest read
    reingests,      \* directory ingests that read the listing of the previous one
    raw,            \* raw/: the extracted source files
    staging,        \* staging/ast/: AST file name -> "none" | "empty" | "nodes"
    archive,        \* archive/run_<id>/: the archived raw files, per run
    runs,           \* number of ETLRunner objects constructed so far
    pc,             \* position of the current run ("idle": no run in progress)
    input_path,     \* self.input_path: whether it exists and the files it holds
    skip_phases,    \* self.skip_phases, the list stats['phases_skipped'] aliases
    callerSkip,     \* the skip list as the caller passed it
    stats,          \* self.stats
    todo,           \* files of the current phase not yet iterated
    found,          \* per phase, the files the phase listed
    done,           \* per phase, the files the phase processed
    executed,       \* phases whose handler was entered, in order
    threw,          \* (kind, file or item) pairs whose processing raised
    raised,         \* whether run() ended by raising ETLPipelineError
    failedPhase,    \* the phase whose handler raised, or "none"
    graphAtStart,   \* the graph store and ingestCalls when the run was constructed
    saves,          \* calls of _save_run_stats made by the current run
    persisted,      \* logs/etl/etl_run_<run_id>.json of the current run
    exc,            \* the exception that left run(), outermost first (<<>>: none)
    interrupted,    \* the position at which KeyboardInterrupt arrived, or "none"
    astIn,          \* the AST handed to enrich_ast
    mock,           \* MOCK_ENRICHMENT is "true"
    template,       \* prompt_templates/csharp_enrich_prompt.txt can be read
    epc,            \* position of the enrichment call in progress
    work,           \* chunks enrich_ast has not enriched yet
    call,           \* the call_llm_with_retry in progress
    attached,       \* enrichment records attached to classes and methods so far
    lastExtract,    \* the last response given to extract_enriched_data, and its result
    result,         \* how enrich_ast ended and the file-level record it wrote
    reqs,           \* the requests issued: whether all failed, and how many by
                    \* call_llm (whole) and by call_llm_with_retry (chunk)
    loads,          \* concurrent loads: per worker, its file and its position
    enforced,       \* the kinds of write the graph store itself keeps unique
    source,         \* the parse tree given to the extractor, and where it fails
    ast_out,        \* what parse_cs_file returned for it
    declared,       \* the type declaration of a source file, with its bases
    extracted,      \* the AST the extractor emitted for it, as the loader reads it
    chunkIn,        \* the AST given to the chunked strategy, and the class answers
    chunkOut        \* its chunks, its enriched classes and its final output

loaderVars == <<nodes, edges, curated, ingestCalls, lastIngest, reingests>>
diskVars == <<raw, staging, archive>>
endVars == <<saves, persisted, exc, interrupted>>
enrichVars == <<astIn, mock, template, epc, work, call, attached, lastExtract,
                result, reqs>>
parVars == <<loads, enforced>>
parseVars == <<source, ast_out, declared, extracted>>
composeVars == <<chunkIn, chunkOut>>
runVars == <<runs, pc, input_path, skip_phases, callerSkip, stats, todo, found,
             done, executed, threw, raised, failedPhase, graphAtStart, saves,
             persisted, exc, interrupted>>
vars == <<nodes, edges, curated, ingestCalls, lastIngest, reingests, raw,
          staging, archive, runs, pc, input_path, skip_phases, callerSkip,
          stats, todo, found, done, executed, threw, raised, failedPhase,
          graphAtStart, saves, persisted, exc, interrupted, astIn, mock,
          template, epc, work, call, attached, lastExtract, result, reqs, loads,
          enforced, source, ast_out, declared, extracted, chunkIn, chunkOut>>

(***************************************************************************)
(* Bounds of the model.                                                    *)
(***************************************************************************)
MaxIngests == 3
MaxRuns == 1

(***************************************************************************)
(* Python helpers.                                                         *)
(***************************************************************************)
\* dict.get(key, default)
Get(d, key, default) == IF key \in DOMAIN d THEN d[key] ELSE default

\* "key in d"
Has(d, key) == key \in DOMAIN d

RECURSIVE Concat(_)
Concat(seqs) ==
    IF seqs = <<>> THEN <<>> ELSE Head(seqs) \o Concat(Tail(seqs))

Last(s) == s[Len(s)]
Front(s) == SubSeq(s, 1, Len(s) - 1)
InSeq(x, s) == \E i \in 1..Len(s) : s[i] = x
Range(s) == {s[i] : i \in 1..Len(s)}

(***************************************************************************)
(* Enriched JSON files.  An AST node is a record with the keys the JSON    *)
(* object has; an absent key is an absent field.                           *)
(***************************************************************************)
MethodGet ==
    [type |-> "Method", name |-> "Get", startLine |-> 3, endLine |-> 3,
     modifiers |-> <<"public">>, returnType |-> "int",
     parameters |-> << [type |-> "string", name |-> "a"] >>,
     enrichment |-> [summary |-> "reads"]]

ClassC ==
    [type |-> "Class", name |-> "C", startLine |-> 2, endLine |-> 4,
     modifiers |-> <<"public">>, baseTypes |-> <<"IFoo">>,
     body |-> <<MethodGet>>, enrichment |-> [summary |-> "cart"]]

NamespaceN ==
    [type |-> "Namespace", name |-> "N", startLine |-> 1, body |-> <<ClassC>>]

\* A second file declaring a class with the uid of ClassC, a method without
\* returnType, a parameter without type, and an interface without startLine.
MethodPut ==
    [type |-> "Method", name |-> "Put", startLine |-> 5,
     modifiers |-> <<"static", "private">>,
     parameters |-> << [type |-> "int", name |-> "n"], [name |-> "x"] >>]

ClassC2 ==
    [type |-> "Class", name |-> "C", startLine |-> 2,
     modifiers |-> <<"internal">>, body |-> <<MethodPut, MethodGet>>,
     enrichment |-> [summary |-> "order"]]

InterfaceIFoo == [type |-> "Interface", name |-> "IFoo", body |-> <<>>]

\* An enum whose members carry no type; the last one has no startLine.
EnumColor ==
    [type |-> "Enum", name |-> "Color", startLine |-> 1,
     members |-> << [name |-> "Red", startLine |-> 2],
                    [name |-> "Green", startLine |-> 3],
                    [name |-> "Blue"] >>]

\* A body child without type that declares base types.
ClassE ==
    [type |-> "Class", name |-> "E", startLine |-> 7,
     body |-> << [name |-> "Orphan", startLine |-> 8,
                  baseTypes |-> <<"IQux">>] >>]

\* A class with an empty name and base types, followed by a regular class.
ClassNoName ==
    [type |-> "Class", name |-> "", startLine |-> 4, baseTypes |-> <<"IBar">>]

ClassD ==
    [type |-> "Class", name |-> "D", startLine |-> 9, baseTypes |-> <<"IBaz">>]

\* A method node without a name key.
MethodAnon == [type |-> "Method", startLine |-> 7, returnType |-> "bool"]

CartFile == <<"Shop", "Core", "Cart", "enriched">>
OrderFile == <<"Shop", "Core", "Order", "Enriched">>
ColorFile == <<"Shop", "Util", "Color", "enriched">>
OrphanFile == <<"Tool", "Orphan", "enriched">>
BadFile == <<"Bad">>
AnonFile == <<"Tool", "Anon", "enriched">>

\* Two files of one module that declare the same class on the same line;
\* they are the inputs of the concurrent loads.
LeftFile == <<"Shop", "Core", "Left", "enriched">>
RightFile == <<"Shop", "Core", "Right", "enriched">>

\* The enriched file of the declaration the extractor was given.
ParsedFile == <<"Shop", "Core", "Parsed", "enriched">>

\* The listing order of curated/ (glob): a fixed order of the names.
EnrichedUniverse ==
    <<CartFile, OrderFile, ColorFile, OrphanFile, BadFile, AnonFile>>

\* json.load of an enriched file
EnrichedContent(f) ==
    CASE f = CartFile -> [ast |-> <<NamespaceN>>, summary |-> "cart file"]
      [] f = OrderFile -> [ast |-> <<ClassC2, InterfaceIFoo>>]
      [] f = ColorFile -> [ast |-> <<EnumColor>>]
      [] f = OrphanFile -> [ast |-> <<ClassE>>]
      [] f = BadFile -> [ast |-> <<ClassNoName, ClassD>>]
      [] f = AnonFile -> [ast |-> <<MethodAnon, ClassD>>]
      [] f \in {LeftFile, RightFile} -> [ast |-> <<ClassD>>]
      [] OTHER -> [summary |-> "no ast"]

\* str.lower() on the last part of a stem
Lower(s) == IF s = "Enriched" \/ s = "ENRICHED" THEN "enriched" ELSE s

(***************************************************************************)
(* The graph store (neomodel).                                             *)
(***************************************************************************)
\* <Label>.nodes.get_or_none(uid=uid): the rows with that label and uid
get_or_none_blind(ns, label, uid) == {}

get_or_none(ns, label, uid) ==
    {i \in 1..Len(ns) : ns[i].label = label /\ ns[i].uid = uid}

Ref(label, uid) == [label |-> label, uid |-> uid]

\* <manager>.is_connected(node)
is_connected_blind(es, rel, src, dst) == FALSE

is_connected(es, rel, src, dst) ==
    \E i \in 1..Len(es) :
        /\ es[i].rel = rel
        /\ es[i].src.label = src.label /\ es[i].src.uid = src.uid
        /\ es[i].dst.label = dst.label /\ es[i].dst.uid = dst.uid

\* <manager>.connect(node)
connect(es, rel, src, dst) == Append(es, [rel |-> rel, src |-> src, dst |-> dst])

\* connect guarded by is_connected, as every CodeEntity edge is written
ConnectIfAbsent(es, rel, src, dst) ==
    IF is_connected(es, rel, src, dst) THEN es ELSE connect(es, rel, src, dst)

(***************************************************************************)
(* collect_all_nodes and the in-place typing of untyped children.          *)
(***************************************************************************)
RECURSIVE ChildrenOf(_, _)
ChildrenOf(node, keys) ==
    IF keys = <<>> THEN <<>>
    ELSE Get(node, Head(keys), <<>>) \o ChildrenOf(node, Tail(keys))

RECURSIVE CollectLoop(_, _)
CollectLoop(queue, acc) ==
    IF queue = <<>> THEN acc
    ELSE CollectLoop(
            Front(queue)
                \o ChildrenOf(Last(queue),
                              <<"body", "members", "statements", "children">>),
            Append(acc, Last(queue)))

collect_all_nodes(ast_node) == CollectLoop(<<ast_node>>, <<>>)

\* child["type"] = "EnumMember" for a child without type, with a name and a
\* truthy startLine
NeedsEnumFix(child) ==
    /\ ~Has(child, "type") /\ Has(child, "name")
    /\ Get(child, "startLine", 0) # 0

EnumFix(child) ==
    IF NeedsEnumFix(child)
    THEN [k \in DOMAIN child \cup {"type"} |->
            IF k = "type" THEN "EnumMember" ELSE child[k]]
    ELSE child

\* The first pass types the members of every collected node (the children are
\* the very objects collect_all_nodes returned).
RECURSIVE FixMembers(_)
FixMembers(node) ==
    [k \in DOMAIN node |->
        IF k = "members"
        THEN [i \in 1..Len(node[k]) |-> FixMembers(EnumFix(node[k][i]))]
        ELSE IF k \in {"body", "statements", "children"}
        THEN [i \in 1..Len(node[k]) |-> FixMembers(node[k][i])]
        ELSE node[k]]

\* uid = f"{type}:{name}:{startLine}"
AstUid(node) == <<node.type, node.name, Get(node, "startLine", 0)>>

\* The second pass types the body/members/statements children of every node
\* that has an entity in node_map.
RECURSIVE FixChildren(_, _)
FixChildren(node, node_map) ==
    LET isParent == /\ Has(node, "type") /\ Has(node, "name")
                    /\ AstUid(node) \in node_map
    IN [k \in DOMAIN node |->
        IF k \in {"body", "members", "statements"}
        THEN [i \in 1..Len(node[k]) |->
                FixChildren(IF isParent THEN EnumFix(node[k][i]) ELSE node[k][i],
                            node_map)]
        ELSE IF k = "children"
        THEN [i \in 1..Len(node[k]) |-> FixChildren(node[k][i], node_map)]
        ELSE node[k]]

RECURSIVE CollectRoots(_)
CollectRoots(roots) ==
    IF roots = <<>> THEN <<>>
    ELSE collect_all_nodes(Head(roots)) \o CollectRoots(Tail(roots))
(***************************************************************************)
(* _process_single_file.  A loader state st is                             *)
(*   [nodes, edges, node_map, raised]                                      *)
(* where node_map is the set of uids the dict node_map has as keys and     *)
(* raised says that an exception left the function.                        *)
(***************************************************************************)
\* all_nodes_to_process: each collected node, then its members, body items
\* and statements
RECURSIVE AllNodesToProcess(_)
AllNodesToProcess(ast_nodes) ==
    IF ast_nodes = <<>> THEN <<>>
    ELSE LET node == Head(ast_nodes)
         IN <<node>> \o Get(node, "members", <<>>) \o Get(node, "body", <<>>)
                \o Get(node, "statements", <<>>)
                \o AllNodesToProcess(Tail(ast_nodes))

Visibility == {"public", "private", "protected", "internal"}

\* next((m for m in modifiers if m in [...]), "")
RECURSIVE FirstVisibility(_)
FirstVisibility(mods) ==
    IF mods = <<>> THEN ""
    ELSE IF Head(mods) \in Visibility THEN Head(mods)
    ELSE FirstVisibility(Tail(mods))

\* the rendered signature of a Method: return type, name, (type, name) pairs
Signature(node) ==
    IF node.type = "Method"
    THEN LET ps == Get(node, "parameters", <<>>)
         IN <<Get(node, "returnType", "void"), node.name,
              [i \in 1..Len(ps) |->
                  <<Get(ps[i], "type", ""), Get(ps[i], "name", "")>>]>>
    ELSE <<>>

EntityRow(node, uid) ==
    [label |-> "CodeEntity", uid |-> uid, name |-> node.name,
     type |-> node.type,
     summary |-> Get(Get(node, "enrichment", [x |-> 0]), "summary", ""),
     access_modifier |-> FirstVisibility(Get(node, "modifiers", <<>>)),
     signature |-> Signature(node)]

SyntheticRow(uid, name, type) ==
    [label |-> "CodeEntity", uid |-> uid, name |-> name, type |-> type,
     summary |-> "", access_modifier |-> "", signature |-> <<>>]

\* get-or-create of a CodeEntity row
SaveAlways(ns, row) == Append(ns, row)

SaveIfAbsent(ns, row) ==
    IF get_or_none(ns, "CodeEntity", row.uid) = {} THEN Append(ns, row) ELSE ns

\* First pass with a save that overwrites the row of a uid already stored
EntityStepOverwriting(node, st, file_ref) ==
    IF Get(node, "type", "") = "" \/ Get(node, "name", "") = "" THEN st
    ELSE LET uid == AstUid(node)
         IN IF uid \in st.node_map THEN st
            ELSE [st EXCEPT
                    !.nodes = IF get_or_none(st.nodes, "CodeEntity", uid) = {}
                              THEN Append(st.nodes, EntityRow(node, uid))
                              ELSE [i \in 1..Len(st.nodes) |->
                                      IF i \in get_or_none(st.nodes, "CodeEntity", uid)
                                      THEN EntityRow(node, uid) ELSE st.nodes[i]],
                    !.edges = ConnectIfAbsent(st.edges, "HAS_ENTITY", file_ref,
                                              Ref("CodeEntity", uid)),
                    !.node_map = st.node_map \cup {uid}]

\* First pass, one node (lines 137-180)
EntityStep(node, st, file_ref) ==
    IF Get(node, "type", "") = "" \/ Get(node, "name", "") = "" THEN st
    ELSE LET uid == AstUid(node)
         IN IF uid \in st.node_map THEN st
            ELSE [st EXCEPT
                    !.nodes = SaveIfAbsent(st.nodes, EntityRow(node, uid)),
                    !.edges = ConnectIfAbsent(st.edges, "HAS_ENTITY", file_ref,
                                              Ref("CodeEntity", uid)),
                    !.node_map = st.node_map \cup {uid}]

RECURSIVE EntityPass(_, _, _)
EntityPass(list, st, file_ref) ==
    IF list = <<>> THEN st
    ELSE EntityPass(Tail(list), EntityStep(Head(list), st, file_ref), file_ref)

\* Second pass cut short: only the first child of the parent is linked
ContainsChildrenHead(children, st, parent_uid) ==
    IF children = <<>> THEN st
    ELSE LET child == Head(children)
             ok == /\ Has(child, "type") /\ Has(child, "name")
                   /\ AstUid(child) \in st.node_map
         IN IF ok
            THEN [st EXCEPT !.edges =
                    ConnectIfAbsent(st.edges, "CONTAINS",
                                    Ref("CodeEntity", parent_uid),
                                    Ref("CodeEntity", AstUid(child)))]
            ELSE st

\* Second pass, the children of one parent (lines 200-216)
RECURSIVE ContainsChildren(_, _, _)
ContainsChildren(children, st, parent_uid) ==
    IF children = <<>> THEN st
    ELSE LET child == Head(children)
             ok == /\ Has(child, "type") /\ Has(child, "name")
                   /\ AstUid(child) \in st.node_map
             st1 == IF ok
                    THEN [st EXCEPT !.edges =
                            ConnectIfAbsent(st.edges, "CONTAINS",
                                            Ref("CodeEntity", parent_uid),
                                            Ref("CodeEntity", AstUid(child)))]
                    ELSE st
         IN ContainsChildren(Tail(children), st1, parent_uid)

RECURSIVE ContainsPass(_, _)
ContainsPass(list, st) ==
    IF list = <<>> THEN st
    ELSE LET node == Head(list)
             isParent == /\ Has(node, "type") /\ Has(node, "name")
                         /\ AstUid(node) \in st.node_map
             st1 == IF isParent
                    THEN ContainsChildren(
                            ChildrenOf(node, <<"body", "members", "statements">>),
                            st, AstUid(node))
                    ELSE st
         IN ContainsPass(Tail(list), st1)

\* uid = f"Parameter:{method_uid}:{pname}"
ParamUid(method_uid, pname) == <<"Parameter">> \o method_uid \o <<pname>>

\* Third pass, the parameters of one method (lines 231-248)
RECURSIVE ParameterLoop(_, _, _)
ParameterLoop(ps, st, method_uid) ==
    IF ps = <<>> THEN st
    ELSE LET p == Head(ps)
             skip == Get(p, "name", "") = "" \/ Get(p, "type", "") = ""
             uid == ParamUid(method_uid, p.name)
             absent == get_or_none(st.nodes, "CodeEntity", uid) = {}
             st1 == IF skip THEN st
                    ELSE [st EXCEPT
                            !.nodes = IF absent
                                      THEN Append(st.nodes,
                                                  SyntheticRow(uid, p.name, "Parameter"))
                                      ELSE st.nodes,
                            !.node_map = IF absent THEN st.node_map \cup {uid}
                                         ELSE st.node_map,
                            !.edges = ConnectIfAbsent(st.edges, "HAS_PARAMETER",
                                                      Ref("CodeEntity", method_uid),
                                                      Ref("CodeEntity", uid))]
         IN ParameterLoop(Tail(ps), st1, method_uid)

\* No synthetic row is written
SharedEntitySkipped(st, uid, name, type) == st

\* node_map.get(uid) or CodeEntity.nodes.get_or_none(uid=uid), then create
SharedEntity(st, uid, name, type) ==
    IF uid \in st.node_map \/ get_or_none(st.nodes, "CodeEntity", uid) # {}
    THEN st
    ELSE [st EXCEPT !.nodes = Append(st.nodes, SyntheticRow(uid, name, type)),
                    !.node_map = st.node_map \cup {uid}]

\* Third pass (lines 222-260)
RECURSIVE SignaturePass(_, _)
SignaturePass(list, st) ==
    IF list = <<>> \/ st.raised THEN st
    ELSE LET node == Head(list)
         IN IF Get(node, "type", "") # "Method" THEN SignaturePass(Tail(list), st)
            ELSE IF ~Has(node, "name")
            THEN [st EXCEPT !.raised = TRUE]      \* node['name']: KeyError
            ELSE LET method_uid == <<"Method", node.name, Get(node, "startLine", 0)>>
                 IN IF method_uid \notin st.node_map
                    THEN SignaturePass(Tail(list), st)
                    ELSE LET st1 == ParameterLoop(Get(node, "parameters", <<>>),
                                                  st, method_uid)
                             return_type == Get(node, "returnType", "void")
                             return_uid == <<"ReturnType", return_type>>
                             st2 == SharedEntity(st1, return_uid, return_type,
                                                 "ReturnType")
                             st3 == [st2 EXCEPT !.edges =
                                       ConnectIfAbsent(st2.edges, "RETURNS",
                                                       Ref("CodeEntity", method_uid),
                                                       Ref("CodeEntity", return_uid))]
                         IN SignaturePass(Tail(list), st3)

\* Fourth pass, the base types of one node (lines 270-278)
RECURSIVE BaseLoop(_, _, _, _)
BaseLoop(bases, st, from_uid, from_found) ==
    IF bases = <<>> \/ st.raised THEN st
    ELSE LET base == Head(bases)
             to_uid == <<"Interface", base, 0>>
             st1 == SharedEntity(st, to_uid, base, "Interface")
         IN IF ~from_found
            THEN [st1 EXCEPT !.raised = TRUE]   \* None.implements: AttributeError
            ELSE BaseLoop(Tail(bases),
                          [st1 EXCEPT !.edges =
                              ConnectIfAbsent(st1.edges, "IMPLEMENTS",
                                              Ref("CodeEntity", from_uid),
                                              Ref("CodeEntity", to_uid))],
                          from_uid, from_found)

\* Fourth pass (lines 266-280)
RECURSIVE ImplementsPass(_, _)
ImplementsPass(list, st) ==
    IF list = <<>> \/ st.raised THEN st
    ELSE LET node == Head(list)
         IN IF Get(node, "baseTypes", <<>>) = <<>>
            THEN ImplementsPass(Tail(list), st)
            ELSE IF ~Has(node, "type") \/ ~Has(node, "name")
            THEN [st EXCEPT !.raised = TRUE]      \* node['type']: KeyError
            ELSE ImplementsPass(Tail(list),
                                BaseLoop(node.baseTypes, st, AstUid(node),
                                         AstUid(node) \in st.node_map))
(***************************************************************************)
(* _process_single_file and ingest_enriched_json.                          *)
(***************************************************************************)
CuratedDir == [kind |-> "dir", stem |-> <<>>]
FilePath(f) == [kind |-> "file", stem |-> f]

\* parts = file_stem.split("_"), without a trailing "enriched"
LoaderParts(f) == IF Lower(Last(f)) = "enriched" THEN Front(f) ELSE f

ProjectUid(f) == <<"Project", LoaderParts(f)[1]>>

ModuleName(f) ==
    IF Len(LoaderParts(f)) >= 2 THEN LoaderParts(f)[2] ELSE "UnknownModule"

ModuleUid(f) == <<"Module", LoaderParts(f)[1], ModuleName(f)>>

FileUid(f) == <<"File", f>>

\* Project, Module and File nodes (lines 63-103)
ContainerNodes(f, g) ==
    LET pRef == Ref("Project", ProjectUid(f))
        mRef == Ref("Module", ModuleUid(f))
        fRef == Ref("File", FileUid(f))
        n1 == IF get_or_none(g.nodes, "Project", ProjectUid(f)) = {}
              THEN Append(g.nodes, [label |-> "Project", uid |-> ProjectUid(f),
                                    name |-> LoaderParts(f)[1]])
              ELSE g.nodes
        newModule == get_or_none(n1, "Module", ModuleUid(f)) = {}
        n2 == IF newModule
              THEN Append(n1, [label |-> "Module", uid |-> ModuleUid(f),
                               name |-> ModuleName(f)])
              ELSE n1
        e2 == IF newModule THEN connect(g.edges, "HAS_MODULE", pRef, mRef)
              ELSE g.edges
        newFile == get_or_none(n2, "File", FileUid(f)) = {}
        n3 == IF newFile
              THEN Append(n2, [label |-> "File", uid |-> FileUid(f), name |-> f])
              ELSE n2
        e3 == IF newFile THEN connect(e2, "HAS_FILE", mRef, fRef) ELSE e2
    IN [nodes |-> n3, edges |-> e3]

\* _process_single_file after json.load has returned data: the graph it
\* leaves and whether it raised
ProcessContent(data, f, g) ==
    LET c == ContainerNodes(f, g)
        roots0 == Get(data, "ast", <<>>)
        roots1 == [i \in 1..Len(roots0) |-> FixMembers(roots0[i])]
        ast_nodes == CollectRoots(roots1)
        st0 == [nodes |-> c.nodes, edges |-> c.edges, node_map |-> {},
                raised |-> FALSE]
        st1 == EntityPass(AllNodesToProcess(ast_nodes), st0,
                          Ref("File", FileUid(f)))
        roots2 == [i \in 1..Len(roots1) |-> FixChildren(roots1[i], st1.node_map)]
        ast_nodes2 == CollectRoots(roots2)
        st2 == ContainsPass(ast_nodes2, st1)
        st3 == SignaturePass(ast_nodes2, st2)
        st4 == ImplementsPass(ast_nodes2, st3)
    IN [nodes |-> st4.nodes, edges |-> st4.edges, raised |-> st4.raised]

\* _process_single_file(file_path): json.load, then the passes
process_single_file(f, g) == ProcessContent(EnrichedContent(f), f, g)

\* curated_path.glob("*.json"): the files of the directory in listing order
Glob(dir) == SelectSeq(EnrichedUniverse, LAMBDA f : f \in dir)

\* for json_file in json_files: _process_single_file(json_file)
RECURSIVE IngestLoop(_, _)
IngestLoop(files, g) ==
    IF files = <<>> \/ g.raised THEN g
    ELSE IngestLoop(Tail(files), process_single_file(Head(files), g))

\* ingest_enriched_json(curated_path): a path that is not a directory is
\* logged as invalid and nothing is read
ingest_enriched_json(path, dir, g) ==
    IF path.kind # "dir" THEN [nodes |-> g.nodes, edges |-> g.edges, raised |-> FALSE]
    ELSE IngestLoop(Glob(dir),
                    [nodes |-> g.nodes, edges |-> g.edges, raised |-> FALSE])

Graph == [nodes |-> nodes, edges |-> edges]
(***************************************************************************)
(* Concurrent loads.  Two workers each run _process_single_file on a file; *)
(* every call of the graph store (get_or_none, save, is_connected,         *)
(* connect) is one step, and the steps of the two workers interleave.      *)
(* The program order of a file's store calls is the list Ops(f); an op is  *)
(* a get-or-create of a row ("node") or the writing of an edge ("edge").   *)
(***************************************************************************)
Loaders == {1, 2}

\* the inputs of the concurrent loads: two files that share uids
SharedFiles == {LeftFile, RightFile}

\* the file each worker is given
InputOf == <<LeftFile, RightFile>>

\* Fields of an op:
\*   needs      uids node_map must hold for the op to run; missing says what
\*              happens otherwise ("skip", or "raise" for None.implements)
\*   skip       uids whose presence in node_map makes the op find its row
\*              without asking the store; skipJump ops are then passed over
\*   checked    the edge is written under "if not is_connected"
\*   when       "created": the edge is written only with the row just created
\*   onReject   what a save the store refuses leads to: "continue" (caught in
\*              the entity pass: next node), "return" (caught for the File
\*              row), "raise"
\*   addsDone, addsCreated   the keys node_map gets when the op ends, and
\*              when it ends having created the row
BaseOp ==
    [kind |-> "node", label |-> "", uid |-> <<>>, row |-> <<>>, rel |-> "",
     src |-> Ref("", <<>>), dst |-> Ref("", <<>>), checked |-> TRUE,
     needs |-> {}, missing |-> "skip", skip |-> {}, skipJump |-> 1,
     when |-> "any", onReject |-> "raise", addsDone |-> {}, addsCreated |-> {}]

NodeOp(label, uid, row) ==
    [BaseOp EXCEPT !.label = label, !.uid = uid, !.row = row]

EdgeOp(rel, src, dst) ==
    [BaseOp EXCEPT !.kind = "edge", !.rel = rel, !.src = src, !.dst = dst]

\* lines 63-103: Project, Module (connected when created), File (connected
\* when created; a failing save is logged and the function returns)
ContainerOps(f) ==
    LET pRef == Ref("Project", ProjectUid(f))
        mRef == Ref("Module", ModuleUid(f))
        fRef == Ref("File", FileUid(f))
    IN << NodeOp("Project", ProjectUid(f),
                 [label |-> "Project", uid |-> ProjectUid(f),
                  name |-> LoaderParts(f)[1]]),
          NodeOp("Module", ModuleUid(f),
                 [label |-> "Module", uid |-> ModuleUid(f), name |-> ModuleName(f)]),
          [EdgeOp("HAS_MODULE", pRef, mRef) EXCEPT !.checked = FALSE,
                                                   !.when = "created"],
          [NodeOp("File", FileUid(f),
                  [label |-> "File", uid |-> FileUid(f), name |-> f])
             EXCEPT !.onReject = "return"],
          [EdgeOp("HAS_FILE", mRef, fRef) EXCEPT !.checked = FALSE,
                                                 !.when = "created"] >>

\* lines 136-180: get-or-create of the entity, HAS_ENTITY from the file,
\* node_map[uid] = entity; a node whose uid is in node_map is passed over
RECURSIVE EntityOps(_, _)
EntityOps(list, file_ref) ==
    IF list = <<>> THEN <<>>
    ELSE LET node == Head(list)
             uid == AstUid(node)
         IN (IF Get(node, "type", "") = "" \/ Get(node, "name", "") = ""
             THEN <<>>
             ELSE << [NodeOp("CodeEntity", uid, EntityRow(node, uid))
                        EXCEPT !.skip = {uid}, !.skipJump = 2,
                               !.onReject = "continue"],
                     [EdgeOp("HAS_ENTITY", file_ref, Ref("CodeEntity", uid))
                        EXCEPT !.addsDone = {uid}] >>)
            \o EntityOps(Tail(list), file_ref)

\* lines 200-216: one CONTAINS edge per child that has an entity
RECURSIVE ContainsChildOps(_, _)
ContainsChildOps(children, parent_uid) ==
    IF children = <<>> THEN <<>>
    ELSE LET child == Head(children)
         IN (IF Has(child, "type") /\ Has(child, "name")
             THEN << [EdgeOp("CONTAINS", Ref("CodeEntity", parent_uid),
                             Ref("CodeEntity", AstUid(child)))
                        EXCEPT !.needs = {parent_uid, AstUid(child)}] >>
             ELSE <<>>)
            \o ContainsChildOps(Tail(children), parent_uid)

\* lines 189-216
RECURSIVE ContainsOps(_)
ContainsOps(list) ==
    IF list = <<>> THEN <<>>
    ELSE LET node == Head(list)
         IN (IF Has(node, "type") /\ Has(node, "name")
             THEN ContainsChildOps(
                    ChildrenOf(node, <<"body", "members", "statements">>),
                    AstUid(node))
             ELSE <<>>)
            \o ContainsOps(Tail(list))

\* lines 231-248: the parameters of one method
RECURSIVE ParameterOps(_, _)
ParameterOps(ps, method_uid) ==
    IF ps = <<>> THEN <<>>
    ELSE LET p == Head(ps)
             uid == ParamUid(method_uid, p.name)
         IN (IF Get(p, "name", "") = "" \/ Get(p, "type", "") = "" THEN <<>>
             ELSE << [NodeOp("CodeEntity", uid,
                             SyntheticRow(uid, p.name, "Parameter"))
                        EXCEPT !.needs = {method_uid}, !.addsCreated = {uid}],
                     [EdgeOp("HAS_PARAMETER", Ref("CodeEntity", method_uid),
                             Ref("CodeEntity", uid))
                        EXCEPT !.needs = {method_uid}] >>)
            \o ParameterOps(Tail(ps), method_uid)

\* lines 222-260: parameters, then the return type and RETURNS
RECURSIVE SignatureOps(_)
SignatureOps(list) ==
    IF list = <<>> THEN <<>>
    ELSE LET node == Head(list)
             method_uid == <<"Method", node.name, Get(node, "startLine", 0)>>
             return_type == Get(node, "returnType", "void")
             return_uid == <<"ReturnType", return_type>>
         IN (IF Get(node, "type", "") # "Method" THEN <<>>
             ELSE ParameterOps(Get(node, "parameters", <<>>), method_uid)
                  \o << [NodeOp("CodeEntity", return_uid,
                                SyntheticRow(return_uid, return_type, "ReturnType"))
                           EXCEPT !.needs = {method_uid}, !.skip = {return_uid},
                                  !.addsCreated = {return_uid}],
                        [EdgeOp("RETURNS", Ref("CodeEntity", method_uid),
                                Ref("CodeEntity", return_uid))
                           EXCEPT !.needs = {method_uid}] >>)
            \o SignatureOps(Tail(list))

\* lines 270-278: the base types of one node; from_node is None when the
\* node has no entity in node_map
RECURSIVE BaseOps(_, _)
BaseOps(bases, from_uid) ==
    IF bases = <<>> THEN <<>>
    ELSE LET to_uid == <<"Interface", Head(bases), 0>>
         IN << [NodeOp("CodeEntity", to_uid,
                       SyntheticRow(to_uid, Head(bases), "Interface"))
                  EXCEPT !.skip = {to_uid}, !.addsCreated = {to_uid}],
               [EdgeOp("IMPLEMENTS", Ref("CodeEntity", from_uid),
                       Ref("CodeEntity", to_uid))
                  EXCEPT !.needs = {from_uid}, !.missing = "raise"] >>
            \o BaseOps(Tail(bases), from_uid)

\* lines 266-280
RECURSIVE ImplementsOps(_)
ImplementsOps(list) ==
    IF list = <<>> THEN <<>>
    ELSE LET node == Head(list)
         IN (IF Get(node, "baseTypes", <<>>) = <<>> THEN <<>>
             ELSE BaseOps(node.baseTypes, AstUid(node)))
            \o ImplementsOps(Tail(list))

\* the store calls of _process_single_file(f), in program order
FileOps(f) ==
    LET roots == Get(EnrichedContent(f), "ast", <<>>)
        ast_nodes == CollectRoots([i \in 1..Len(roots) |-> FixMembers(roots[i])])
    IN ContainerOps(f)
         \o EntityOps(AllNodesToProcess(ast_nodes), Ref("File", FileUid(f)))
         \o ContainsOps(ast_nodes) \o SignatureOps(ast_nodes)
         \o ImplementsOps(ast_nodes)

\* the op lists of the two shared files, computed once
LeftOps == FileOps(LeftFile)
RightOps == FileOps(RightFile)
Ops(f) == IF f = LeftFile THEN LeftOps ELSE RightOps

\* the rows or edges of the store that an op asks for and writes
Present(op) ==
    IF op.kind = "node" THEN get_or_none(nodes, op.label, op.uid) # {}
    ELSE is_connected(edges, op.rel, op.src, op.dst)

NoLoad ==
    [file |-> <<>>, i |-> 0, phase |-> "idle", node_map |-> {},
     created |-> FALSE, wrote |-> {}]

LoadsIdle == loads = [w \in Loaders |-> NoLoad] /\ enforced = {}

\* the worker moves on by n ops; past the last op the load is complete
Advance(l, n) ==
    [l EXCEPT !.i = l.i + n,
              !.phase = IF l.i + n > Len(Ops(l.file)) THEN "done" ELSE "check"]

\* a worker starts _process_single_file on its file
StartLoad(w) ==
    /\ loads[w].phase = "idle"
    /\ loads' = [loads EXCEPT ![w] = [NoLoad EXCEPT !.file = InputOf[w], !.i = 1,
                                                    !.phase = "check"]]
    /\ UNCHANGED <<enforced, loaderVars, diskVars, runVars, enrichVars, parseVars, composeVars>>

\* get_or_none / is_connected: the worker learns whether the row or edge is
\* there, and goes on to write it if it is not
Observe(w) ==
    LET l == loads[w]
        op == Ops(l.file)[l.i]
    IN /\ l.phase = "check"
       /\ loads' = [loads EXCEPT ![w] =
            IF op.skip \cap l.node_map # {}
            THEN [Advance(l, op.skipJump) EXCEPT !.created = FALSE]
            ELSE IF ~(op.needs \subseteq l.node_map)
            THEN IF op.missing = "raise" THEN [l EXCEPT !.phase = "raised"]
                 ELSE Advance(l, 1)
            ELSE IF op.when = "created" /\ ~l.created THEN Advance(l, 1)
            ELSE IF ~op.checked \/ ~Present(op) THEN [l EXCEPT !.phase = "write"]
            ELSE [Advance(l, 1) EXCEPT
                    !.created = IF op.kind = "node" THEN FALSE ELSE l.created,
                    !.node_map = l.node_map \cup op.addsDone]]
       /\ UNCHANGED <<enforced, loaderVars, diskVars, runVars, enrichVars, parseVars, composeVars>>

\* the store accepts every write
StoreWriteMerged(op) ==
    IF Present(op) THEN [nodes |-> nodes, edges |-> edges, rejected |-> FALSE]
    ELSE IF op.kind = "node"
    THEN [nodes |-> Append(nodes, op.row), edges |-> edges, rejected |-> FALSE]
    ELSE [nodes |-> nodes, rejected |-> FALSE,
          edges |-> connect(edges, op.rel, op.src, op.dst)]

\* .save() and .connect() as the store executes them: a row whose uid is
\* taken is refused (unique_index) when the store enforces the index, an
\* edge that is there is absorbed when the store merges edges; otherwise
\* the row or edge is appended
StoreWrite(op) ==
    IF Present(op) /\ op.kind \in enforced
    THEN [nodes |-> nodes, edges |-> edges, rejected |-> op.kind = "node"]
    ELSE IF op.kind = "node"
    THEN [nodes |-> Append(nodes, op.row), edges |-> edges, rejected |-> FALSE]
    ELSE [nodes |-> nodes, rejected |-> FALSE,
          edges |-> connect(edges, op.rel, op.src, op.dst)]

\* save / connect, on what the worker observed earlier
Write(w) ==
    LET l == loads[w]
        op == Ops(l.file)[l.i]
        s == StoreWrite(op)
        l1 == [l EXCEPT !.wrote = l.wrote \cup {l.i}]
    IN /\ l.phase = "write"
       /\ nodes' = s.nodes
       /\ edges' = s.edges
       /\ loads' = [loads EXCEPT ![w] =
            IF s.rejected
            THEN CASE op.onReject = "continue" -> Advance(l1, 2)
                   [] op.onReject = "return" -> [l1 EXCEPT !.phase = "done"]
                   [] OTHER -> [l1 EXCEPT !.phase = "raised"]
            ELSE [Advance(l1, 1) EXCEPT
                    !.created = IF op.kind = "node" THEN TRUE ELSE l.created,
                    !.node_map = l.node_map \cup op.addsDone \cup
                                 (IF op.kind = "node" THEN op.addsCreated ELSE {})]]
       /\ UNCHANGED <<enforced, curated, ingestCalls, lastIngest, reingests,
                      diskVars, runVars, enrichVars, parseVars, composeVars>>
(***************************************************************************)
(* The structural extractor: ASTCollector and parse_cs_file.  A parse tree *)
(* node is [rule, name, line, children]; the line identifies it.  An       *)
(* emitted AST node is [type, name, line, container], where container is   *)
(* the line of the node whose body it was appended to, 0 for the Program   *)
(* node.  The visitor state is                                             *)
(*   [out, ns, cls, ifc, str, enm]                                         *)
(* with the current_* references as lines (0: None).                       *)
(***************************************************************************)
Construct(rule, name, line, children) ==
    [rule |-> rule, name |-> name, line |-> line, children |-> children]

ContainerRules == {"namespace", "class", "interface", "struct", "enum"}
MemberRules ==
    {"method", "property", "constructor", "delegate", "event", "field"}

\* the "type" the visitor of the rule writes into its node
NodeType(rule) ==
    CASE rule = "namespace" -> "Namespace" [] rule = "class" -> "Class"
      [] rule = "interface" -> "Interface" [] rule = "struct" -> "Struct"
      [] rule = "enum" -> "Enum" [] rule = "method" -> "Method"
      [] rule = "property" -> "Property" [] rule = "constructor" -> "Constructor"
      [] rule = "delegate" -> "Delegate" [] rule = "event" -> "Event"
      [] rule = "field" -> "Field"

\* the first of the references that is set, else the Program node
FirstSet(refs) ==
    IF \E i \in 1..Len(refs) : refs[i] # 0
    THEN refs[CHOOSE i \in 1..Len(refs) :
                refs[i] # 0 /\ \A j \in 1..(i - 1) : refs[j] = 0]
    ELSE 0

\* "Add to appropriate container": the if/elif chain of each visitor
AttachTo(rule, st) ==
    CASE rule = "namespace" -> 0
      [] rule \in {"class", "interface", "struct", "enum"} -> FirstSet(<<st.ns>>)
      [] rule \in {"method", "property"} -> FirstSet(<<st.cls, st.ifc, st.str>>)
      [] rule \in {"constructor", "field"} -> FirstSet(<<st.cls, st.str>>)
      [] rule = "delegate" -> FirstSet(<<st.cls, st.ns>>)
      [] rule = "event" -> FirstSet(<<st.cls, st.str, st.ifc>>)

\* self.current_<kind> = <node>
SetCurrent(rule, st, ref) ==
    CASE rule = "namespace" -> [st EXCEPT !.ns = ref]
      [] rule = "class" -> [st EXCEPT !.cls = ref]
      [] rule = "interface" -> [st EXCEPT !.ifc = ref]
      [] rule = "struct" -> [st EXCEPT !.str = ref]
      [] rule = "enum" -> [st EXCEPT !.enm = ref]

Current(rule, st) ==
    CASE rule = "namespace" -> st.ns [] rule = "class" -> st.cls
      [] rule = "interface" -> st.ifc [] rule = "struct" -> st.str
      [] rule = "enum" -> st.enm

Emit(t, st) ==
    [st EXCEPT !.out = Append(st.out,
        [type |-> NodeType(t.rule), name |-> t.name, line |-> t.line,
         container |-> AttachTo(t.rule, st)])]

RECURSIVE Visit(_, _, _)
RECURSIVE VisitChildren(_, _, _)

\* visitChildren: the children in order; an exception leaves the loop
VisitChildren(children, st, failing) ==
    IF children = <<>> THEN [st |-> st, exc |-> FALSE]
    ELSE LET r == Visit(Head(children), st, failing)
         IN IF r.exc THEN r ELSE VisitChildren(Tail(children), r.st, failing)

\* visit<Rule>: failing holds the lines of the constructs whose own
\* extraction raises.  A container or member visitor catches every
\* exception of its try block, which spans visitChildren, and returns None
\* (the container's current_* reference is then not restored);
\* visitTyped_member_declaration has try/finally only and lets it pass.
Visit(t, st, failing) ==
    IF t.rule = "typed_member"
    THEN IF t.line \in failing THEN [st |-> st, exc |-> TRUE]
         ELSE VisitChildren(t.children, st, failing)
    ELSE IF t.line \in failing THEN [st |-> st, exc |-> FALSE]
    ELSE IF t.rule \in ContainerRules
    THEN LET previous == Current(t.rule, st)
             r == VisitChildren(t.children,
                                SetCurrent(t.rule, Emit(t, st), t.line), failing)
         IN [st |-> IF r.exc THEN r.st ELSE SetCurrent(t.rule, r.st, previous),
             exc |-> FALSE]
    ELSE [st |-> VisitChildren(t.children, Emit(t, st), failing).st,
          exc |-> FALSE]

NewCollector == [out |-> <<>>, ns |-> 0, cls |-> 0, ifc |-> 0, str |-> 0, enm |-> 0]

\* parse_cs_file: visitor.visit(tree), then the collected nodes; [] when the
\* visit raised (lines 851-886)
parse_cs_file(src) ==
    LET r == VisitChildren(src.tree, NewCollector, src.failing)
    IN IF r.exc THEN <<>> ELSE r.st.out

\* The compilation units given to the extractor.
TypedMember(line, member) == Construct("typed_member", "", line, <<member>>)
Leaf(rule, name, line) == Construct(rule, name, line, <<>>)

\* namespace N { class C { int M(); int F; C(); event E; int P {get;} }
\*               delegate D; }
PlainUnit ==
    << Construct("namespace", "N", 1,
        << Construct("class", "C", 2,
            << TypedMember(3, Leaf("method", "M", 4)),
               TypedMember(5, Leaf("field", "F", 6)),
               Leaf("constructor", "C", 7),
               Leaf("event", "E", 8),
               TypedMember(9, Leaf("property", "P", 10)) >>),
           Leaf("delegate", "D", 11) >>) >>

\* class Outer { class Inner { void M(); } void Q(); }
NestedClassUnit ==
    << Construct("class", "Outer", 1,
        << Construct("class", "Inner", 2,
              << TypedMember(3, Leaf("method", "M", 4)) >>),
           TypedMember(5, Leaf("method", "Q", 6)) >>) >>

\* namespace A { namespace B { class C {} } class D {} }
NestedNamespaceUnit ==
    << Construct("namespace", "A", 1,
        << Construct("namespace", "B", 2, << Leaf("class", "C", 3) >>),
           Leaf("class", "D", 4) >>) >>

\* class K { struct S { void M(); } interface I { int P {get;} } }  void T();
NestedStructUnit ==
    << Construct("class", "K", 1,
        << Construct("struct", "S", 2,
              << TypedMember(3, Leaf("method", "M", 4)) >>),
           Construct("interface", "I", 5, << Leaf("property", "P", 6) >>) >>),
       Leaf("method", "T", 7) >>

Units == {PlainUnit, NestedClassUnit, NestedNamespaceUnit, NestedStructUnit}

RECURSIVE Lines(_)
Lines(children) ==
    IF children = <<>> THEN {}
    ELSE {Head(children).line} \cup Lines(Head(children).children)
            \cup Lines(Tail(children))

\* at most this many constructs of a unit fail
MaxFailures == 2

Sources ==
    UNION {{[tree |-> u, failing |-> F] :
              F \in {G \in SUBSET Lines(u) : Cardinality(G) <= MaxFailures}} :
           u \in Units}

NoSource == [tree |-> <<>>, failing |-> {}]
NoDeclaration == [rule |-> "none", name |-> "", line |-> 0, bases |-> <<>>]
NothingExtracted == [done |-> FALSE, loaded |-> FALSE, raised |-> FALSE, ast |-> <<>>]
ParseIdle ==
    /\ source = NoSource /\ ast_out = [done |-> FALSE, nodes |-> <<>>]
    /\ declared = NoDeclaration /\ extracted = NothingExtracted

\* the lexer and parser have produced the tree of a file
ReadSource(src) ==
    /\ ast_out.done \/ source = NoSource
    /\ source' = src
    /\ ast_out' = [done |-> FALSE, nodes |-> <<>>]
    /\ UNCHANGED <<declared, extracted>>
    /\ UNCHANGED <<loaderVars, diskVars, runVars, enrichVars, parVars, composeVars>>

\* visitor.visit(tree) and the return of parse_cs_file
ParseCsFile ==
    /\ source # NoSource /\ ~ast_out.done
    /\ ast_out' = [done |-> TRUE, nodes |-> parse_cs_file(source)]
    /\ UNCHANGED <<source, declared, extracted>>
    /\ UNCHANGED <<loaderVars, diskVars, runVars, enrichVars, parVars, composeVars>>

(***************************************************************************)
(* The base types of a declaration, from the source to the graph.  A       *)
(* declaration is [rule, name, line, bases]: the names after the colon, in *)
(* order.  With no method in the file enrich_ast writes the AST it was     *)
(* given as the "ast" of the enriched file (enrich.py lines 786-788).      *)
(***************************************************************************)
MaxBases == 2
BaseNames == {"IA", "IB"}
BaseLists == UNION { [1..n -> BaseNames] : n \in 0..MaxBases }
TypeDeclarations ==
    { [rule |-> r, name |-> n, line |-> 3, bases |-> b] :
        r \in {"class", "interface", "struct"}, n \in {"A", "B"}, b \in BaseLists }

\* the key a visitor stores the bases under
BasesKey(rule) ==
    CASE rule = "class" -> "baseTypes"
      [] rule = "interface" -> "baseInterfaces"
      [] OTHER -> "interfaces"

\* the bases a visitor stores: class_base().class_type() is the first name
\* after the colon; the interface and struct visitors loop over the list
StoredBases(d) == IF d.rule = "class" THEN <<d.bases[1]>> ELSE d.bases

\* the modifiers of a declaration written without any
DefaultModifiers(rule) == IF rule = "class" THEN <<"internal">> ELSE <<>>

\* the node visitClass_definition, visitInterface_definition and
\* visitStruct_definition build for a declaration
DeclarationNode(d) ==
    LET core == [type |-> NodeType(d.rule), name |-> d.name, startLine |-> d.line,
                 modifiers |-> DefaultModifiers(d.rule), body |-> <<>>]
    IN IF d.bases = <<>> THEN core
       ELSE (BasesKey(d.rule) :> StoredBases(d)) @@ core

\* the parser has produced the tree of a file with one type declaration
ReadDeclaration(d) ==
    /\ declared = NoDeclaration
    /\ declared' = d
    /\ UNCHANGED <<source, ast_out, extracted>>
    /\ UNCHANGED <<loaderVars, diskVars, runVars, enrichVars, parVars, composeVars>>

\* parse_cs_file: the visitor walks the declaration
VisitDeclaration ==
    /\ declared # NoDeclaration /\ ~extracted.done
    /\ extracted' = [NothingExtracted EXCEPT !.done = TRUE,
                                             !.ast = <<DeclarationNode(declared)>>]
    /\ UNCHANGED <<source, ast_out, declared>>
    /\ UNCHANGED <<loaderVars, diskVars, runVars, enrichVars, parVars, composeVars>>

\* _process_single_file on the enriched file of the declaration
LoadExtracted ==
    LET g == ProcessContent([ast |-> extracted.ast], ParsedFile, Graph)
    IN /\ extracted.done /\ ~extracted.loaded
       /\ nodes' = g.nodes
       /\ edges' = g.edges
       /\ extracted' = [extracted EXCEPT !.loaded = TRUE, !.raised = g.raised]
       /\ UNCHANGED <<source, ast_out, declared, curated, ingestCalls, lastIngest,
                      reingests, diskVars, runVars, enrichVars, parVars, composeVars>>

(***************************************************************************)
(* The chunked strategy of enrich_ast on whole AST nodes: what             *)
(* extract_chunks takes from the AST, what the loops of lines 801-816      *)
(* enrich, and what lines 818-881 compose.  The record enrich_class        *)
(* returns for a class chunk is an input (answers), the record of a        *)
(* method is fixed.                                                        *)
(***************************************************************************)
Node(type, name, line, body) ==
    [type |-> type, name |-> name, startLine |-> line, body |-> body]
Meta(s, t, d) == [summary |-> s, tags |-> t, dependencies |-> d]

MethodsOf(body) == SelectSeq(body, LAMBDA b : b.type = "Method")
ClassesOf(items) == SelectSeq(items, LAMBDA b : b.type = "Class")

\* class_core with its method_names (lines 528-550, 553-570)
ClassCore(c) ==
    [type |-> c.type, name |-> c.name, startLine |-> c.startLine,
     method_names |-> [i \in 1..Len(MethodsOf(c.body)) |-> MethodsOf(c.body)[i].name]]

\* the method chunks of one class
ClassMethodChunks(c) ==
    [i \in 1..Len(MethodsOf(c.body)) |->
        [class_name |-> c.name, method |-> MethodsOf(c.body)[i]]]

\* the classes extract_chunks looks at: those in the body of a top-level
\* namespace and the top-level ones
RECURSIVE ChunkedClasses(_)
ChunkedClasses(ast_nodes) ==
    IF ast_nodes = <<>> THEN <<>>
    ELSE (IF Head(ast_nodes).type = "Namespace" THEN ClassesOf(Head(ast_nodes).body)
          ELSE IF Head(ast_nodes).type = "Class" THEN <<Head(ast_nodes)>>
          ELSE <<>>)
         \o ChunkedClasses(Tail(ast_nodes))

\* extract_chunks (lines 510-580)
extract_chunks(ast_nodes) ==
    LET cs == ChunkedClasses(ast_nodes)
    IN [class_chunks |-> [i \in 1..Len(cs) |-> ClassCore(cs[i])],
        method_chunks |-> Concat([i \in 1..Len(cs) |-> ClassMethodChunks(cs[i])])]

\* the enrichment enrich_method adds to a method
MethodMeta == Meta("method", <<"method">>, <<>>)

\* enrich_method: {**method_data, "enrichment": enrichment}
EnrichedMethod(m) == [enrichment |-> MethodMeta] @@ m

\* lines 808-812: the method chunks whose class_name is the name of the
\* class chunk
ChunksNamed(class_data, method_chunks) ==
    SelectSeq(method_chunks, LAMBDA mc : mc.class_name = class_data.name)

\* compose_enriched_class (lines 731-750)
compose_enriched_class(class_core, class_meta, enriched_methods) ==
    [enrichment |-> class_meta, body |-> enriched_methods] @@ class_core

\* Step 2 (lines 801-816): the composed classes, and the calls of
\* enrich_method made on the way
EnrichedClasses(chunks, answers) ==
    [k \in 1..Len(chunks.class_chunks) |->
        LET mine == ChunksNamed(chunks.class_chunks[k], chunks.method_chunks)
        IN compose_enriched_class(chunks.class_chunks[k], answers[k],
               [i \in 1..Len(mine) |-> EnrichedMethod(mine[i].method)])]

EnrichMethodCalls(chunks) ==
    Concat([k \in 1..Len(chunks.class_chunks) |->
              ChunksNamed(chunks.class_chunks[k], chunks.method_chunks)])

\* Step 3 (lines 818-833): enriched_class.get("class_enrichment", {})
ClassEnrichment(ec) == Get(ec, "class_enrichment", Meta("", <<>>, <<>>))

AggregateChunked(enriched_classes) ==
    LET with == SelectSeq(enriched_classes,
                          LAMBDA ec : ClassEnrichment(ec).summary # "")
    IN [summary |-> IF with = <<>> THEN <<"C# code analysis">>
                    ELSE [i \in 1..Len(with) |->
                            <<with[i].name, ClassEnrichment(with[i]).summary>>],
        tags |-> UNION { Range(ClassEnrichment(enriched_classes[i]).tags) :
                           i \in 1..Len(enriched_classes) },
        dependencies |->
            UNION { Range(ClassEnrichment(enriched_classes[i]).dependencies) :
                      i \in 1..Len(enriched_classes) }]

\* lines 843-848: the first enriched class with the name of the body item
FirstNamed(enriched_classes, name) ==
    enriched_classes[CHOOSE i \in 1..Len(enriched_classes) :
        /\ enriched_classes[i].name = name
        /\ \A j \in 1..(i - 1) : enriched_classes[j].name # name]

\* Step 4 (lines 835-867): the classes in a namespace body are replaced,
\* every other node is kept as it is
EnrichedAst(ast_nodes, enriched_classes) ==
    [n \in 1..Len(ast_nodes) |->
        IF ast_nodes[n].type = "Namespace"
        THEN [ast_nodes[n] EXCEPT !.body =
                [b \in 1..Len(ast_nodes[n].body) |->
                    IF ast_nodes[n].body[b].type = "Class"
                    THEN FirstNamed(enriched_classes, ast_nodes[n].body[b].name)
                    ELSE ast_nodes[n].body[b]]]
        ELSE ast_nodes[n]]

\* The ASTs given to the chunked strategy.
MethodM == Node("Method", "M", 3, <<>>)
MethodN == Node("Method", "N", 12, <<>>)
\* namespace A { class C { M; field F } }
FieldAst ==
    << Node("Namespace", "A", 1,
         << Node("Class", "C", 2, <<MethodM, Node("Field", "F", 4, <<>>)>>) >>) >>
\* namespace A { class C { M } }  namespace B { class C { N } }
SameNameAst ==
    << Node("Namespace", "A", 1, << Node("Class", "C", 2, <<MethodM>>) >>),
       Node("Namespace", "B", 10, << Node("Class", "C", 11, <<MethodN>>) >>) >>
\* class T { M }, not in a namespace
TopLevelAst == << Node("Class", "T", 20, <<MethodM>>) >>
\* namespace A { class C { M }  class D { N }  interface I }
RegularAst ==
    << Node("Namespace", "A", 1,
         << Node("Class", "C", 2, <<MethodM>>),
            Node("Class", "D", 11, <<MethodN>>),
            Node("Interface", "I", 20, <<>>) >>) >>
ChunkAsts == {FieldAst, SameNameAst, TopLevelAst, RegularAst}

\* what enrich_class may return for a class chunk
ClassAnswers ==
    { Meta("cart", <<"entity">>, <<"Item">>),
      Meta("order", <<"entity", "service">>, <<>>),
      Meta("", <<"misc">>, <<"Db">>),
      Meta("", <<>>, <<>>) }

ChunkInputs ==
    UNION { { [ast |-> a, answers |-> q] :
                q \in [1..Len(ChunkedClasses(a)) -> ClassAnswers] } : a \in ChunkAsts }

NoChunks == [class_chunks |-> <<>>, method_chunks |-> <<>>]
NoChunkInput == [ast |-> <<>>, answers |-> <<>>]
NoChunkOutput ==
    [step |-> "idle", chunks |-> NoChunks, enriched_classes |-> <<>>,
     calls |-> <<>>, ast |-> <<>>, file |-> Meta(<<>>, {}, {})]
ComposeIdle == chunkIn = NoChunkInput /\ chunkOut = NoChunkOutput

\* enrich_ast, step 1: extract_chunks finds method chunks
ExtractChunks(inp) ==
    /\ chunkOut.step = "idle"
    /\ chunkIn' = inp
    /\ chunkOut' = [chunkOut EXCEPT !.step = "chunks",
                                    !.chunks = extract_chunks(inp.ast)]
    /\ UNCHANGED <<loaderVars, diskVars, runVars, enrichVars, parVars, parseVars>>

\* enrich_ast, step 2
EnrichChunks ==
    /\ chunkOut.step = "chunks"
    /\ chunkOut' = [chunkOut EXCEPT
          !.step = "enriched",
          !.enriched_classes = EnrichedClasses(chunkOut.chunks, chunkIn.answers),
          !.calls = EnrichMethodCalls(chunkOut.chunks)]
    /\ UNCHANGED chunkIn
    /\ UNCHANGED <<loaderVars, diskVars, runVars, enrichVars, parVars, parseVars>>

\* enrich_ast, steps 3 to 5: final_output
ComposeOutput ==
    /\ chunkOut.step = "enriched"
    /\ chunkOut' = [chunkOut EXCEPT
          !.step = "done",
          !.ast = EnrichedAst(chunkIn.ast, chunkOut.enriched_classes),
          !.file = AggregateChunked(chunkOut.enriched_classes)]
    /\ UNCHANGED chunkIn
    /\ UNCHANGED <<loaderVars, diskVars, runVars, enrichVars, parVars, parseVars>>

(***************************************************************************)
(* The orchestrator: ETLRunner.  Raw files are named by the components of  *)
(* their path below raw/; the first component is the item of raw/ that the *)
(* archiver moves.                                                         *)
(***************************************************************************)
Phases == <<"extract", "parse", "enrich", "load", "archive">>
LoopPhases == {"parse", "enrich", "load", "archive"}

\* self.stats as __init__ builds it (lines 96-104); "NONE" and -1 stand for
\* a key that is not set yet
NoStats ==
    [phases_completed |-> <<>>, errors |-> <<>>, status |-> "NONE",
     files_extracted |-> -1, files_processed |-> 0, files_enriched |-> -1,
     files_loaded |-> -1, loaded_files |-> <<>>, files_archived |-> -1,
     end_time |-> FALSE]

\* no statistics file of the run exists
NotSaved == [written |-> "none", data |-> NoStats]

RawCart == <<"Shop", "Core", "Cart">>
RawAnon == <<"Tool", "Anon">>

\* os.walk order of raw/
RawUniverse == <<RawCart, RawAnon>>

\* rel_path.replace('/', '_').replace('.cs', '_ast.json')
AstName(rel) == rel \o <<"ast">>

\* ast_file.name.replace('_ast.json', '_enriched.json')
EnrichedName(ast) ==
    IF Last(ast) = "ast" THEN Front(ast) \o <<"enriched">> ELSE ast

AstUniverse == <<AstName(RawCart), AstName(RawAnon)>>

\* glob('*_ast.json') on staging/ast
GlobAst(st) == SelectSeq(AstUniverse, LAMBDA a : st[a] # "none")

\* glob('*_enriched.json') on curated/
GlobEnriched(dir) ==
    SelectSeq(EnrichedUniverse, LAMBDA f : f \in dir /\ Last(f) = "enriched")

\* os.walk(raw) filtered on '.cs'
WalkRaw(dir) == SelectSeq(RawUniverse, LAMBDA f : f \in dir)

\* os.listdir(raw): the top-level items
RECURSIVE Dedup(_)
Dedup(s) ==
    IF s = <<>> THEN <<>>
    ELSE IF InSeq(Last(s), Front(s)) THEN Dedup(Front(s))
    ELSE Append(Dedup(Front(s)), Last(s))

ListRaw(dir) ==
    LET fs == WalkRaw(dir) IN Dedup([i \in 1..Len(fs) |-> fs[i][1]])

ItemFiles(dir, item) == {f \in dir : f[1] = item}

\* a run() whose phase blocks are written in another order
NextPcSwapped(p) ==
    CASE p = "extract" -> "enrich"
      [] p = "enrich" -> "parse"
      [] p = "parse" -> "load"
      [] p = "load" -> "archive"
      [] p = "archive" -> "finalize"

\* run(): the phase blocks follow one another (lines 120-154)
NextPc(p) ==
    CASE p = "extract" -> "parse"
      [] p = "parse" -> "enrich"
      [] p = "enrich" -> "load"
      [] p = "load" -> "archive"
      [] p = "archive" -> "finalize"

\* a run() that ignores the skip list
ShouldRunAlways(p) == TRUE

\* run(): "if '<phase>' not in self.skip_phases"
ShouldRun(p) == ~InSeq(p, skip_phases)

\* the skip lists a caller may pass: every subset of the phases, in order
SkipLists ==
    {SelectSeq(Phases, LAMBDA p : p \in S) : S \in SUBSET Range(Phases)}

Inputs ==
    {[exists |-> FALSE, files |-> {}],
     [exists |-> TRUE, files |-> {RawCart, RawAnon}]}

Err(kind, file) == [kind |-> kind, file |-> file]

\* ETLRunner(input_path, output_base, skip_phases) followed by run() up to
\* the first phase (lines 62-119)
StartRun(skip, inp) ==
    /\ pc = "idle"
    /\ runs < MaxRuns
    /\ runs' = runs + 1
    /\ pc' = "extract"
    /\ input_path' = inp
    /\ skip_phases' = skip
    /\ callerSkip' = skip
    /\ stats' = NoStats
    /\ todo' = <<>>
    /\ found' = [p \in LoopPhases |-> <<>>]
    /\ done' = [p \in LoopPhases |-> <<>>]
    /\ executed' = <<>>
    /\ threw' = {}
    /\ raised' = FALSE
    /\ failedPhase' = "none"
    /\ graphAtStart' = [nodes |-> nodes, edges |-> edges, calls |-> ingestCalls]
    /\ saves' = 0
    /\ persisted' = NotSaved
    /\ exc' = <<>>
    /\ interrupted' = "none"
    /\ UNCHANGED <<parVars, enrichVars, parseVars, composeVars, loaderVars, diskVars>>

\* A later ETLRunner(input_path, output_base, skip_phases) on the output
\* base of the runs before it, followed by run() up to the first phase:
\* __init__ creates the directories that are missing (mkdir with
\* exist_ok, lines 78-93) and leaves what they hold.
MaxLaterRuns == 1
FirstInput == [exists |-> TRUE, files |-> {RawCart, RawAnon}]
LaterInput == [exists |-> TRUE, files |-> {RawAnon}]
StartLaterRun(skip, inp) ==
    /\ pc = "idle"
    /\ runs >= 1 /\ runs < 1 + MaxLaterRuns
    /\ runs' = runs + 1
    /\ pc' = "extract"
    /\ input_path' = inp
    /\ skip_phases' = skip
    /\ callerSkip' = skip
    /\ stats' = NoStats
    /\ todo' = <<>>
    /\ found' = [p \in LoopPhases |-> <<>>]
    /\ done' = [p \in LoopPhases |-> <<>>]
    /\ executed' = <<>>
    /\ threw' = {}
    /\ raised' = FALSE
    /\ failedPhase' = "none"
    /\ graphAtStart' = [nodes |-> nodes, edges |-> edges, calls |-> ingestCalls]
    /\ saves' = 0
    /\ persisted' = NotSaved
    /\ exc' = <<>>
    /\ interrupted' = "none"
    /\ UNCHANGED <<parVars, enrichVars, parseVars, composeVars, loaderVars, diskVars>>

\* run(): a phase named in self.skip_phases is logged and appended to
\* stats['phases_skipped'], which is the list self.skip_phases itself
SkipPhase ==
    /\ pc \in Range(Phases)
    /\ ~ShouldRun(pc)
    /\ skip_phases' = Append(skip_phases, pc)
    /\ pc' = NextPc(pc)
    /\ UNCHANGED <<parVars, enrichVars, parseVars, composeVars, loaderVars, diskVars, runs, input_path, callerSkip, stats,
                   todo, found, done, executed, threw, raised, failedPhase,
                   graphAtStart, endVars>>

\* A phase handler raised: its except clause records "<Phase> phase failed",
\* run()'s except clause sets FAILED, records str(e) and raises
\* ETLPipelineError; finally saves the statistics (lines 166-176).
FailedStats(st, phase) ==
    [st EXCEPT !.status = "FAILED",
               !.end_time = TRUE,
               !.errors = st.errors \o <<Err("phase failed", phase),
                                         Err("pipeline failed", phase)>>]

\* a _save_run_stats that writes the record as it was before run() set the
\* status and the end time
SaveRunStatsEarly(st) ==
    [written |-> "whole", data |-> [st EXCEPT !.status = "NONE", !.end_time = FALSE]]

\* _save_run_stats (lines 405-415) with log_etl_summary (logger.py lines
\* 96-104): the statistics are written to logs/etl/etl_run_<run_id>.json
SaveRunStats(st) == [written |-> "whole", data |-> st]

\* the exception the phase handler caught: extract_source raises
\* FileNotFoundError for a missing input and validate_raw ValueError for a
\* raw/ without source files (extract.py lines 25-26, 97-98); the other
\* handlers raise ETLPipelineError themselves for an empty listing
Cause(phase) ==
    IF phase # "extract" THEN "ETLPipelineError"
    ELSE IF input_path.exists THEN "ValueError" ELSE "FileNotFoundError"

\* a run() that records the failure and goes on with the next phase
AbortContinues(phase) ==
    /\ stats' = FailedStats(stats, phase)
    /\ raised' = FALSE
    /\ failedPhase' = phase
    /\ pc' = NextPc(phase)
    /\ todo' = <<>>
    /\ UNCHANGED endVars

Abort(phase) ==
    /\ stats' = FailedStats(stats, phase)
    /\ raised' = TRUE
    /\ failedPhase' = phase
    /\ pc' = "idle"
    /\ todo' = <<>>
    /\ exc' = <<"ETLPipelineError", "ETLPipelineError", Cause(phase)>>
    /\ saves' = saves + 1
    /\ persisted' = SaveRunStats(stats')
    /\ UNCHANGED interrupted

\* _extract_phase (lines 180-203)
ExtractPhase ==
    /\ pc = "extract"
    /\ ShouldRun("extract")
    /\ executed' = Append(executed, "extract")
    /\ LET copied == IF input_path.exists THEN raw \cup input_path.files ELSE raw
           valid == input_path.exists /\ copied # {}
       IN /\ raw' = copied
          /\ IF valid
             THEN /\ stats' = [stats EXCEPT
                                !.files_extracted = Cardinality(copied),
                                !.phases_completed = Append(@, "extract")]
                  /\ pc' = NextPc("extract")
                  /\ UNCHANGED <<raised, failedPhase, todo, endVars>>
             ELSE Abort("extract")
    /\ UNCHANGED <<parVars, enrichVars, parseVars, composeVars, loaderVars, staging, archive, runs, input_path, skip_phases,
                   callerSkip, found, done, threw, graphAtStart>>

\* _parse_phase up to the loop (lines 209-224)
ParseBegin ==
    /\ pc = "parse"
    /\ ShouldRun("parse")
    /\ executed' = Append(executed, "parse")
    /\ LET cs_files == WalkRaw(raw)
       IN IF cs_files = <<>>
          THEN /\ Abort("parse")
               /\ UNCHANGED found
          ELSE /\ todo' = cs_files
               /\ found' = [found EXCEPT !["parse"] = cs_files]
               /\ pc' = "parse_loop"
               /\ UNCHANGED <<stats, raised, failedPhase, endVars>>
    /\ UNCHANGED <<parVars, enrichVars, parseVars, composeVars, loaderVars, diskVars, runs, input_path, skip_phases,
                   callerSkip, done, threw, graphAtStart>>

\* a per-file except clause that only logs
FileFailedSilently(kind, f) ==
    /\ stats' = stats
    /\ threw' = threw \cup {<<kind, f>>}

\* the except clause of a per-file try (lines 253-257, 316-320, 359-363)
FileFailed(kind, f) ==
    /\ stats' = [stats EXCEPT !.errors = Append(@, Err(kind, f))]
    /\ threw' = threw \cup {<<kind, f>>}

\* one iteration of the parse loop (lines 226-257): parse_cs_file returns the
\* nodes, returns [] after an inner failure, or raises
ParseFile(outcome) ==
    /\ pc = "parse_loop"
    /\ todo # <<>>
    /\ LET cs_file == Head(todo)
       IN IF outcome = "raise"
          THEN /\ FileFailed("parse", cs_file)
               /\ UNCHANGED <<staging, done>>
          ELSE /\ staging' = [staging EXCEPT ![AstName(cs_file)] = outcome]
               /\ done' = [done EXCEPT !["parse"] = Append(@, cs_file)]
               /\ UNCHANGED <<stats, threw>>
    /\ todo' = Tail(todo)
    /\ UNCHANGED <<parVars, enrichVars, parseVars, composeVars, loaderVars, raw, archive, runs, pc, input_path, skip_phases,
                   callerSkip, found, executed, raised, failedPhase,
                   graphAtStart, endVars>>

\* _parse_phase after the loop (lines 259-264)
ParseEnd ==
    /\ pc = "parse_loop"
    /\ todo = <<>>
    /\ stats' = [stats EXCEPT !.files_processed = Len(done["parse"]),
                              !.phases_completed = Append(@, "parse")]
    /\ pc' = NextPc("parse")
    /\ UNCHANGED <<parVars, enrichVars, parseVars, composeVars, loaderVars, diskVars, runs, input_path, skip_phases,
                   callerSkip, todo, found, done, executed, threw, raised,
                   failedPhase, graphAtStart, endVars>>


\* _enrich_phase up to the loop (lines 276-286)
EnrichBegin ==
    /\ pc = "enrich"
    /\ ShouldRun("enrich")
    /\ executed' = Append(executed, "enrich")
    /\ LET ast_files == GlobAst(staging)
       IN IF ast_files = <<>>
          THEN /\ Abort("enrich")
               /\ UNCHANGED found
          ELSE /\ todo' = ast_files
               /\ found' = [found EXCEPT !["enrich"] = ast_files]
               /\ pc' = "enrich_loop"
               /\ UNCHANGED <<stats, raised, failedPhase, endVars>>
    /\ UNCHANGED <<parVars, enrichVars, parseVars, composeVars, loaderVars, diskVars, runs, input_path, skip_phases,
                   callerSkip, done, threw, graphAtStart>>

\* one iteration of the enrich loop (lines 288-320): an empty AST file is
\* passed over; otherwise enrich_ast writes the enriched file and returns,
\* or raises, either with nothing written ("raise") or after it has written
\* its fallback output to the enriched path ("fallback", enrich.py lines
\* 891-917)
EnrichFile(outcome) ==
    /\ pc = "enrich_loop"
    /\ todo # <<>>
    /\ LET ast_file == Head(todo)
       IN IF outcome = "raise"
          THEN /\ FileFailed("enrich", ast_file)
               /\ UNCHANGED <<curated, done>>
          ELSE IF staging[ast_file] = "empty"
          THEN UNCHANGED <<curated, done, stats, threw>>
          ELSE IF outcome = "fallback"
          THEN /\ FileFailed("enrich", ast_file)
               /\ curated' = curated \cup {EnrichedName(ast_file)}
               /\ UNCHANGED done
          ELSE /\ curated' = curated \cup {EnrichedName(ast_file)}
               /\ done' = [done EXCEPT !["enrich"] = Append(@, ast_file)]
               /\ UNCHANGED <<stats, threw>>
    /\ todo' = Tail(todo)
    /\ UNCHANGED <<parVars, enrichVars, parseVars, composeVars, nodes, edges, ingestCalls, lastIngest, reingests, diskVars,
                   runs, pc, input_path, skip_phases, callerSkip, found,
                   executed, raised, failedPhase, graphAtStart, endVars>>

\* _enrich_phase after the loop (lines 322-327)
EnrichEnd ==
    /\ pc = "enrich_loop"
    /\ todo = <<>>
    /\ stats' = [stats EXCEPT !.files_enriched = Len(done["enrich"]),
                              !.phases_completed = Append(@, "enrich")]
    /\ pc' = NextPc("enrich")
    /\ UNCHANGED <<parVars, enrichVars, parseVars, composeVars, loaderVars, diskVars, runs, input_path, skip_phases,
                   callerSkip, todo, found, done, executed, threw, raised,
                   failedPhase, graphAtStart, endVars>>

\* _load_phase up to the loop (lines 339-349)
LoadBegin ==
    /\ pc = "load"
    /\ ShouldRun("load")
    /\ executed' = Append(executed, "load")
    /\ LET enriched_files == GlobEnriched(curated)
       IN IF enriched_files = <<>>
          THEN /\ Abort("load")
               /\ UNCHANGED found
          ELSE /\ todo' = enriched_files
               /\ found' = [found EXCEPT !["load"] = enriched_files]
               /\ pc' = "load_loop"
               /\ UNCHANGED <<stats, raised, failedPhase, endVars>>
    /\ UNCHANGED <<parVars, enrichVars, parseVars, composeVars, loaderVars, diskVars, runs, input_path, skip_phases,
                   callerSkip, done, threw, graphAtStart>>

\* one iteration of the load loop (lines 351-363):
\* ingest_enriched_json(str(enriched_file)) is handed the path of the file
LoadFile ==
    /\ pc = "load_loop"
    /\ todo # <<>>
    /\ LET enriched_file == Head(todo)
           g == ingest_enriched_json(FilePath(enriched_file), curated, Graph)
       IN /\ nodes' = g.nodes
          /\ edges' = g.edges
          /\ IF g.raised
             THEN /\ FileFailed("load", enriched_file)
                  /\ UNCHANGED done
             ELSE /\ done' = [done EXCEPT !["load"] = Append(@, enriched_file)]
                  /\ UNCHANGED <<stats, threw>>
    /\ ingestCalls' = ingestCalls + 1
    /\ todo' = Tail(todo)
    /\ UNCHANGED <<parVars, enrichVars, parseVars, composeVars, curated, lastIngest, reingests, diskVars, runs, pc,
                   input_path, skip_phases, callerSkip, found, executed, raised,
                   failedPhase, graphAtStart, endVars>>

\* _load_phase after the loop (lines 365-369)
LoadEnd ==
    /\ pc = "load_loop"
    /\ todo = <<>>
    /\ stats' = [stats EXCEPT !.files_loaded = Len(done["load"]),
                              !.loaded_files = done["load"],
                              !.phases_completed = Append(@, "load")]
    /\ pc' = NextPc("load")
    /\ UNCHANGED <<parVars, enrichVars, parseVars, composeVars, loaderVars, diskVars, runs, input_path, skip_phases,
                   callerSkip, todo, found, done, executed, threw, raised,
                   failedPhase, graphAtStart, endVars>>

\* _archive_phase calling archive_processed_files, up to its loop
\* (run_etl.py lines 381-387, archive.py lines 51-76).  "mkdir": creating
\* the archive directory raises out of the archiver; "broken": an error
\* inside its outer try makes it return (0, []); "list": it lists raw/.
ArchiveBegin(outcome) ==
    /\ pc = "archive"
    /\ ShouldRun("archive")
    /\ executed' = Append(executed, "archive")
    /\ IF outcome = "mkdir"
       THEN /\ stats' = [stats EXCEPT
                            !.errors = Append(@, Err("phase failed", "archive"))]
            /\ threw' = threw \cup {<<"archive mkdir", <<>>>>}
            /\ pc' = NextPc("archive")
            /\ UNCHANGED <<todo, found>>
       ELSE IF outcome = "broken"
       THEN /\ threw' = threw \cup {<<"archive listing", <<>>>>}
            /\ pc' = NextPc("archive")
            /\ UNCHANGED <<stats, todo, found>>
       ELSE IF ListRaw(raw) = <<>>
       THEN /\ pc' = NextPc("archive")
            /\ UNCHANGED <<stats, threw, todo, found>>
       ELSE /\ todo' = ListRaw(raw)
            /\ found' = [found EXCEPT !["archive"] = ListRaw(raw)]
            /\ pc' = "archive_loop"
            /\ UNCHANGED <<stats, threw>>
    /\ UNCHANGED <<parVars, enrichVars, parseVars, composeVars, loaderVars, diskVars, runs, input_path, skip_phases,
                   callerSkip, done, raised, failedPhase, graphAtStart, endVars>>

\* an archiver that moves the item: the source is gone whether or not the
\* copy went through
RemainingRawMoved(dir, item, outcome) == dir \ ItemFiles(dir, item)

\* the source is removed after the copy, in the same try (archive.py lines
\* 84-92): a failing copy or a failing removal leaves it in raw/
RemainingRaw(dir, item, outcome) ==
    IF outcome = "ok" THEN dir \ ItemFiles(dir, item) ELSE dir

\* an archiver that lists the item as soon as it is copied
ArchivedItemsCopied(items, item, outcome) ==
    IF outcome # "copyfail" THEN Append(items, item) ELSE items

\* archived_items.append(item) follows the copy and the removal (line 94)
ArchivedItems(items, item, outcome) ==
    IF outcome = "ok" THEN Append(items, item) ELSE items

\* one iteration of the archiver's loop (archive.py lines 78-99): copy the
\* item, then remove it from raw/; either step may fail, which is logged
ArchiveItem(outcome) ==
    /\ pc = "archive_loop"
    /\ todo # <<>>
    /\ LET item == Head(todo)
           copies == {<<runs, f>> : f \in ItemFiles(raw, item)}
       IN /\ archive' = IF outcome = "copyfail" THEN archive
                        ELSE archive \cup copies
          /\ raw' = RemainingRaw(raw, item, outcome)
          /\ done' = [done EXCEPT !["archive"] = ArchivedItems(@, item, outcome)]
          /\ threw' = IF outcome = "ok" THEN threw
                      ELSE threw \cup {<<"archive item", <<item>>>>}
    /\ todo' = Tail(todo)
    /\ UNCHANGED <<parVars, enrichVars, parseVars, composeVars, loaderVars, staging, runs, pc, input_path, skip_phases,
                   callerSkip, stats, found, executed, raised, failedPhase,
                   graphAtStart, endVars>>

\* an _archive_phase that records the count and not the phase
ArchiveStatsUncounted(st, items) ==
    IF Len(items) > 0 THEN [st EXCEPT !.files_archived = Len(items)] ELSE st

\* _archive_phase, lines 389-396
ArchiveStats(st, items) ==
    IF Len(items) > 0
    THEN [st EXCEPT !.files_archived = Len(items),
                    !.phases_completed = Append(@, "archive")]
    ELSE st

\* the archiver returns (len(archived_items), archived_items) and
\* _archive_phase records them when the count is positive
\* (run_etl.py lines 389-396)
ArchiveEnd ==
    /\ pc = "archive_loop"
    /\ todo = <<>>
    /\ stats' = ArchiveStats(stats, done["archive"])
    /\ pc' = NextPc("archive")
    /\ UNCHANGED <<parVars, enrichVars, parseVars, composeVars, loaderVars, diskVars, runs, input_path, skip_phases,
                   callerSkip, todo, found, done, executed, threw, raised,
                   failedPhase, graphAtStart, endVars>>

\* run(): finalize, save the statistics and return them (lines 156-178)
Finalize ==
    /\ pc = "finalize"
    /\ stats' = [stats EXCEPT !.status = "SUCCESS", !.end_time = TRUE]
    /\ pc' = "idle"
    /\ saves' = saves + 1
    /\ persisted' = SaveRunStats(stats')
    /\ UNCHANGED <<parVars, enrichVars, parseVars, composeVars, loaderVars, diskVars, runs, input_path, skip_phases,
                   callerSkip, todo, found, done, executed, threw, raised,
                   failedPhase, graphAtStart, exc, interrupted>>

(***************************************************************************)
(* Enrichment (pipeline/enrich.py).                                        *)
(*                                                                         *)
(* A JSON value is a record of its type and, for an object, its three      *)
(* fields of interest; a field is a record of its JSON type and its        *)
(* string content.  A text is modelled by its form (what json.loads and    *)
(* the repairing regular expressions make of it), the value it holds, its  *)
(* lower-case words (for the substring tests), the quoted phrases of ten   *)
(* to a hundred characters in it, and whether it is longer than ten        *)
(* characters.                                                             *)
(***************************************************************************)
Absent == [type |-> "absent", val |-> <<>>]
JNull == [type |-> "null", val |-> <<>>]
JNum == [type |-> "number", val |-> <<>>]
JNums == [type |-> "array of numbers", val |-> <<>>]
JStr(s) == [type |-> "string", val |-> <<s>>]
JList(q) == [type |-> "array", val |-> q]

Obj(s, t, d) == [summary |-> s, tags |-> t, dependencies |-> d]
NoFields == Obj(Absent, Absent, Absent)

JObject(o) == [type |-> "object", fields |-> o]
JScalar(t) == [type |-> t, fields |-> NoFields]

Text(form, value, words, quoted, long) ==
    [form |-> form, value |-> value, words |-> words, quoted |-> quoted,
     long |-> long]

\* The objects an LLM answers with: complete, partial, empty, with null
\* fields, with fields of the wrong type.
GoodObj == Obj(JStr("s"), JList(<<"t">>), JList(<<"d">>))
LLMObjects ==
    { GoodObj,
      Obj(JStr("s"), Absent, Absent),
      Obj(Absent, JList(<<"t">>), Absent),
      Obj(Absent, Absent, JList(<<"d">>)),
      NoFields,
      Obj(JNull, JList(<<"t">>), JList(<<"d">>)),
      Obj(JNull, JNull, JNull),
      Obj(Absent, Absent, JNull),
      Obj(JNum, JStr("t"), JNums) }

EmptyText == Text("empty", JScalar("none"), <<>>, <<>>, FALSE)
ProseTexts ==
    { Text("prose", JScalar("none"), <<"ok">>, <<>>, FALSE),
      Text("prose", JScalar("none"), <<"summary">>, <<>>, FALSE),
      Text("prose", JScalar("none"), <<"not", "a", "json">>, <<>>, TRUE),
      Text("prose", JScalar("none"), <<"the", "class", "q">>, <<"q">>, TRUE),
      Text("prose", JScalar("none"), <<"i'm", "sorry", "no", "code">>, <<>>, TRUE),
      Text("prose", JScalar("none"), <<"i", "cannot">>, <<>>, FALSE) }
ObjectTexts ==
    { Text(f, JObject(o), <<"summary">>, <<>>, TRUE) :
        f \in {"json", "wrapped", "truncated"}, o \in LLMObjects }
OtherTexts ==
    { Text("json", JScalar("null"), <<"null">>, <<>>, FALSE),
      Text("json", JScalar("array"), <<"a", "b">>, <<>>, FALSE),
      Text("json", JScalar("number"), <<"42">>, <<>>, FALSE),
      Text("json", JScalar("string"), <<"hello">>, <<>>, FALSE),
      Text("cut string", JScalar("none"), <<"summary", "abc">>, <<>>, TRUE),
      Text("wrapped", JObject(GoodObj), <<"i'm", "sorry", "summary">>, <<>>, TRUE),
      Text("json", JObject(GoodObj), <<"summary", "no", "code">>, <<>>, TRUE),
      Text("json", JObject(Obj(Absent, JList(<<"t">>), Absent)),
           <<"tags", "i", "cannot">>, <<>>, TRUE) }
Texts == {EmptyText} \cup ProseTexts \cup ObjectTexts \cup OtherTexts

\* What the server's JSON body can be, as call_llm_original and
\* call_llm_with_retry receive it from response.json().
Raw(kind, text) == [kind |-> kind, text |-> text, fallback |-> FALSE]
RawResponses ==
    { Raw("response", t) : t \in Texts }
    \cup { Raw("choices", t) : t \in {EmptyText} \cup OtherTexts }
    \cup { Raw(k, EmptyText) :
             k \in {"null response", "no response", "empty dict", "null"} }

\* "pattern in text_lower": the pattern's words occur in the text, in a row.
Contains(p, w) ==
    \E i \in 1..(Len(w) - Len(p) + 1) : SubSeq(w, i, i + Len(p) - 1) = p

refusal_patterns ==
    { <<"i'm", "sorry">>, <<"i", "cannot">>, <<"you", "didn't", "provide">>,
      <<"no", "method">>, <<"no", "code">>,
      <<"therefore", "i", "can", "only">> }

\* dict.setdefault: only an absent key gets the default, a null value stays.
setdefault(o, k, d) == IF o[k].type = "absent" THEN [o EXCEPT ![k] = d] ELSE o

SetDefaults(o, s, d, t) ==
    setdefault(setdefault(setdefault(o, "summary", s), "dependencies", d), "tags", t)

Extracted(path, o) == [path |-> path, rec |-> o]

\* json.loads: only a text that is exactly one JSON value parses.
json_loads(text) == IF text.form = "json" THEN text.value ELSE JScalar("none")

\* clean_json_response: the prose around a flat object is cut away and the
\* closing brackets and braces of a truncated one are added; a text
\* without braces, or cut inside a string, is still not JSON afterwards.
clean_json_response(text) ==
    IF text.form \in {"wrapped", "truncated"}
    THEN [text EXCEPT !.form = "json"]
    ELSE text

\* validate_json: the parsed value, or None when json.loads fails; a JSON
\* null parses to None as well.
validate_json(text) ==
    IF json_loads(text).type = "null" THEN JScalar("none") ELSE json_loads(text)

\* str(raw_resp) of a dict without "response" and "choices": "{}" is a
\* JSON object, any other dict prints with single quotes.
StrOfDict(raw_resp) ==
    IF raw_resp.kind = "empty dict"
    THEN Text("json", JObject(NoFields), <<>>, <<>>, FALSE)
    ELSE Text("repr", JScalar("none"), <<"error", "request", "failed">>, <<>>, TRUE)

\* The text extract_enriched_data reads from the response.
ResponseText(raw_resp) ==
    IF raw_resp.kind \in {"response", "choices"} THEN raw_resp.text ELSE StrOfDict(raw_resp)

\* Reading the text raises inside the try: the response is not a dict, or
\* its "response" is null (None has no strip).
ReadRaises(raw_resp) == raw_resp.kind \in {"null", "null response"}

\* The exception raised inside the try block, if any: "response" in None,
\* None.strip(), or the read of the local name re before its import (the
\* refusal branch, line 335).
RaisedInside(raw_resp) ==
    IF raw_resp.kind = "null" THEN "TypeError"
    ELSE IF raw_resp.kind = "null response" THEN "AttributeError"
    ELSE IF /\ ResponseText(raw_resp).form # "empty"
            /\ \E p \in refusal_patterns : Contains(p, ResponseText(raw_resp).words)
    THEN "UnboundLocalError"
    ELSE "none"

\* "except Exception" (line 501): the classes it catches
CaughtClasses == {"TypeError", "AttributeError", "UnboundLocalError", "JSONDecodeError"}

\* whether an exception leaves extract_enriched_data
extract_raises(raw_resp) == RaisedInside(raw_resp) \notin CaughtClasses \cup {"none"}

\* what extract_enriched_data logs at level ERROR (lines 359, 502)
ExtractErrorLog(raw_resp) ==
    IF RaisedInside(raw_resp) # "none" THEN {"Error extracting LLM response"}
    ELSE IF /\ ResponseText(raw_resp).form # "empty"
            /\ json_loads(ResponseText(raw_resp)).type = "none"
    THEN {"JSON Decode Error"}
    ELSE {}

ErrorRecord == Obj(JStr("Error processing response"), JList(<<"error">>), JList(<<>>))
\* a fallback that finds no summary
FallbackSummaryEmpty(text) == JStr("")

FallbackSummary(text) ==
    IF text.quoted # <<>> THEN JStr(text.quoted[1]) ELSE JStr("Analysis completed")

\* The strategies after the refusal test, in the order of the code.
ExtractFromText(text) ==
    LET direct == json_loads(text)
        parsed == validate_json(clean_json_response(text))
    IN  IF /\ direct.type = "object"
           /\ \/ direct.fields.summary.type # "absent"
              \/ direct.fields.tags.type # "absent"
        THEN Extracted("direct",
                 SetDefaults(direct.fields, JStr(""), JList(<<>>), JList(<<>>)))
        ELSE IF parsed.type = "object"
        THEN Extracted("cleaned",
                 SetDefaults(parsed.fields, JStr(""), JList(<<>>), JList(<<>>)))
        ELSE IF parsed.type # "none"
        THEN Extracted("error", ErrorRecord)
        ELSE Extracted("fallback",
                 Obj(FallbackSummary(text), JList(<<"parsed">>), JList(<<>>)))

\* extract_enriched_data.  Every exception raised inside its try block is
\* turned into the error record (lines 501-507).  The refusal branch always
\* ends there: "import re" at line 388 makes re a local name of the whole
\* function, so re.search at line 335 raises UnboundLocalError.
extract_enriched_data(raw_resp) ==
    IF ReadRaises(raw_resp)
    THEN Extracted("error", ErrorRecord)
    ELSE IF ResponseText(raw_resp).form = "empty"
    THEN Extracted("empty",
             Obj(JStr("No response generated"), JList(<<"no-response">>), JList(<<>>)))
    ELSE IF \E p \in refusal_patterns : Contains(p, ResponseText(raw_resp).words)
    THEN Extracted("error", ErrorRecord)
    ELSE ExtractFromText(ResponseText(raw_resp))

(***************************************************************************)
(* The requests.  An attempt ends with a transport failure or with the     *)
(* body the server sent.                                                   *)
(***************************************************************************)
MaxRetries == 3

FailureKinds == {"connection error", "timeout", "http error", "unparsable body"}
NoRaw == Raw("none", EmptyText)
Failure(k) == [fail |-> k, body |-> NoRaw]
Body(r) == [fail |-> "none", body |-> r]
ServerOutcomes == {Failure(k) : k \in FailureKinds} \cup {Body(r) : r \in RawResponses}

\* call_llm_original with every failure re-raised instead of answered.
call_llm_original_raising(o) ==
    IF o.fail # "none"
    THEN [raised |-> TRUE, raw |-> NoRaw]
    ELSE [raised |-> FALSE, raw |-> o.body]

\* call_llm_original (call_llm is its alias): a request failure or an
\* unparsable body is answered with an empty "response", any parsed body is
\* handed on as it is.
call_llm_original(o) ==
    IF o.fail # "none"
    THEN [raised |-> FALSE, raw |-> Raw("response", EmptyText)]
    ELSE [raised |-> FALSE, raw |-> o.body]

\* '"{" in response_text'
HasBrace(text) ==
    \/ text.form \in {"wrapped", "truncated", "cut string"}
    \/ text.form = "json" /\ text.value.type = "object"

\* What one attempt of call_llm_with_retry makes of the server's outcome:
\* "accept" (return result), "fail" (an exception of the except clause) or
\* "raise" (an exception that clause does not name).
AttemptVerdict(o) ==
    IF o.fail # "none" THEN "fail"
    ELSE IF o.body.kind = "null" THEN "raise"
    ELSE IF o.body.kind # "response"
         THEN IF o.body.kind = "null response" THEN "raise" ELSE "fail"
    ELSE IF o.body.text.form = "empty" THEN "fail"
    ELSE IF \/ HasBrace(o.body.text)
            \/ Contains(<<"summary">>, o.body.text.words)
            \/ o.body.text.long
         THEN "accept"
    ELSE "fail"

FallbackObj == Obj(JStr("Analysis failed - using fallback"),
                   JList(<<"fallback", "error">>), JList(<<>>))
FallbackWords == <<"summary", "analysis", "failed", "-", "using", "fallback",
                   "tags", "fallback", "error", "dependencies">>

\* The response after the last attempt, with an empty text as
\* call_llm_original answers a failure.
FallbackResponseEmpty == [Raw("response", EmptyText) EXCEPT !.fallback = TRUE]

\* The synthetic response returned when no attempt was accepted.
FallbackResponse ==
    [Raw("response", Text("json", JObject(FallbackObj), FallbackWords, <<>>, TRUE))
        EXCEPT !.fallback = TRUE]

NoCall == [state |-> "idle", n |-> 0, attempt |-> 0, requests |-> 0,
           waits |-> <<>>, accepted |-> FALSE, result |-> NoRaw]

\* The state of the loop "for attempt in range(max_retries)" before its
\* first iteration; with max_retries = 0 the loop body never runs.
StartCall(n) ==
    IF n = 0
    THEN [NoCall EXCEPT !.state = "returned", !.result = FallbackResponse]
    ELSE [NoCall EXCEPT !.state = "running", !.n = n]

\* One iteration of the loop, and the return that follows the last one.
AfterAttempt(c, o) ==
    LET sent == [c EXCEPT !.requests = @ + 1]
    IN  CASE AttemptVerdict(o) = "accept" ->
                [sent EXCEPT !.state = "returned", !.accepted = TRUE,
                             !.result = o.body]
          [] AttemptVerdict(o) = "raise" ->
                [sent EXCEPT !.state = "raised"]
          [] OTHER ->
                IF c.attempt < c.n - 1
                THEN [sent EXCEPT !.attempt = @ + 1,
                                  !.waits = Append(@, 2 ^ c.attempt)]
                ELSE [sent EXCEPT !.attempt = @ + 1, !.state = "returned",
                                  !.result = FallbackResponse]

(***************************************************************************)
(* enrich_ast.  An AST is the sequence of its classes, a class its name    *)
(* and the names of its methods.                                           *)
(***************************************************************************)
Class(name, methods) == [name |-> name, methods |-> methods]
AstInputs ==
    { <<>>,
      <<Class("Cart", <<>>)>>,
      <<Class("Cart", <<"GetTotal">>)>> }

\* extract_chunks: one method chunk per method, in the order of the classes.
RECURSIVE MethodChunks(_)
MethodChunks(a) ==
    IF a = <<>> THEN <<>>
    ELSE [i \in 1..Len(Head(a).methods) |->
             [kind |-> "method", class |-> Head(a).name, name |-> Head(a).methods[i]]]
         \o MethodChunks(Tail(a))

\* The calls of enrich_class and enrich_method in the order of the loops
\* of lines 803-816: a class, then the method chunks that carry its name.
RECURSIVE Jobs(_)
Jobs(a) ==
    IF a = <<>> THEN <<>>
    ELSE <<[kind |-> "class", class |-> Head(a).name, name |-> Head(a).name]>>
         \o MethodChunks(<<Head(a)>>) \o Jobs(Tail(a))

\* mock_enrich_class and mock_enrich_method for the names of AstInputs.
mock_enrich_class == Obj(JStr("Domain entity representing cart"),
                         JList(<<"entity", "domain", "model">>), JList(<<>>))
mock_enrich_method == Obj(JStr("Retrieves total data"),
                          JList(<<"method", "getter", "query", "read">>), JList(<<>>))

\* dict.get that answers the default whatever the dict holds.
GetFieldDefault(o, k, d) == d

\* dict.get(key, default)
GetField(o, k, d) == IF o[k].type = "absent" THEN d ELSE o[k]

\* What enrich_class returns once call_llm_with_retry has ended.
enrich_class(c) ==
    IF c.state = "raised"
    THEN mock_enrich_class
    ELSE extract_enriched_data(c.result).rec

\* The enrichment enrich_method attaches once call_llm_with_retry has ended.
enrich_method(c) ==
    IF c.state = "raised" \/ c.result.kind # "response"
    THEN mock_enrich_method
    ELSE SetDefaults(extract_enriched_data(c.result).rec,
                     JStr("Method GetTotal"), JList(<<>>), JList(<<"method">>))

\* Lines 819-833: the file-level record is aggregated from
\* enriched_class.get("class_enrichment", {}), a key compose_enriched_class
\* never sets (it stores the record under "enrichment"), so every class
\* contributes nothing.
Aggregate(classes) ==
    Obj(JStr("C# code analysis"), JList(<<>>), JList(<<>>))

\* Lines 895-906: the record written to the output file before re-raising.
FallbackOutput ==
    Obj(JStr("Error during chunked enrichment"),
        JList(<<"error", "enrichment_failed">>), JList(<<>>))

NoResult == [status |-> "none", file |-> NoFields, strategy |-> "none"]

EnrichIdle ==
    /\ astIn = <<>>
    /\ mock = FALSE
    /\ template = TRUE
    /\ epc = "idle"
    /\ work = <<>>
    /\ call = NoCall
    /\ attached = <<>>
    /\ lastExtract = <<>>
    /\ result = NoResult
    /\ reqs = [issued |-> FALSE, allFailed |-> TRUE, whole |-> 0, chunk |-> 0]

\* enrich_ast(astIn, enriched_output_path) up to the test of line 783.
EnrichAst(a, m, t) ==
    /\ epc = "idle"
    /\ astIn' = a
    /\ mock' = m
    /\ template' = t
    /\ work' = Jobs(a)
    /\ epc' = IF MethodChunks(a) = <<>> THEN "whole" ELSE "chunks"
    /\ UNCHANGED <<loaderVars, diskVars, runVars, parVars, parseVars, composeVars>>
    /\ UNCHANGED <<call, attached, lastExtract, result, reqs>>

\* Lines 784-797: no method chunks, one prompt over the whole AST.
\* build_prompt re-raises when the template cannot be read, and the handler
\* of line 891 re-raises after it has written the fallback output.
WholeAst(o) ==
    /\ epc = "whole"
    /\ epc' = "done"
    /\ IF ~template
       THEN /\ result' = [status |-> "raised", file |-> FallbackOutput,
                          strategy |-> "chunked_fallback"]
            /\ UNCHANGED <<lastExtract, reqs>>
       ELSE /\ reqs' = [issued |-> TRUE,
                        allFailed |-> reqs.allFailed /\ o.fail # "none",
                        whole |-> reqs.whole + 1, chunk |-> reqs.chunk]
            /\ IF call_llm_original(o).raised
               THEN /\ result' = [status |-> "raised", file |-> FallbackOutput,
                                  strategy |-> "chunked_fallback"]
                    /\ UNCHANGED lastExtract
               ELSE LET raw_response == call_llm_original(o).raw
                        e == extract_enriched_data(raw_response)
                    IN  /\ lastExtract' = <<raw_response, e>>
                        /\ result' =
                             [status |-> "returned",
                              file |-> Obj(GetField(e.rec, "summary", JStr("")),
                                           GetField(e.rec, "tags", JList(<<>>)),
                                           GetField(e.rec, "dependencies", JList(<<>>))),
                              strategy |-> "original"]
    /\ UNCHANGED <<loaderVars, diskVars, runVars, parVars, parseVars, composeVars>>
    /\ UNCHANGED <<astIn, mock, template, work, call, attached>>

\* enrich_class (line 805) or enrich_method (line 811) is entered for the
\* next chunk: in mock mode it returns at once, otherwise it calls
\* call_llm_with_retry with max_retries 3 (class) or 2 (method).
BeginChunk ==
    /\ epc = "chunks"
    /\ work # <<>>
    /\ call.state = "idle"
    /\ IF mock
       THEN /\ attached' = Append(attached,
                 [kind |-> Head(work).kind,
                  enrichment |-> IF Head(work).kind = "class"
                                 THEN mock_enrich_class ELSE mock_enrich_method])
            /\ work' = Tail(work)
            /\ UNCHANGED call
       ELSE /\ call' = StartCall(IF Head(work).kind = "class" THEN 3 ELSE 2)
            /\ UNCHANGED <<attached, work>>
    /\ UNCHANGED <<loaderVars, diskVars, runVars, parVars, parseVars, composeVars>>
    /\ UNCHANGED <<astIn, mock, template, epc, lastExtract, result, reqs>>

\* call_llm_with_retry called on its own, with max_retries = n.
CallLlmWithRetry(n) ==
    /\ epc = "idle"
    /\ epc' = "direct"
    /\ call' = StartCall(n)
    /\ UNCHANGED <<loaderVars, diskVars, runVars, parVars, parseVars, composeVars>>
    /\ UNCHANGED <<astIn, mock, template, work, attached, lastExtract, result, reqs>>

\* One iteration of the loop of call_llm_with_retry.
Attempt(o) ==
    /\ call.state = "running"
    /\ call' = AfterAttempt(call, o)
    /\ reqs' = [issued |-> TRUE, allFailed |-> reqs.allFailed /\ o.fail # "none",
                whole |-> reqs.whole, chunk |-> reqs.chunk + 1]
    /\ UNCHANGED <<loaderVars, diskVars, runVars, parVars, parseVars, composeVars>>
    /\ UNCHANGED <<astIn, mock, template, epc, work, attached, lastExtract, result>>

\* call_llm_with_retry has ended inside enrich_class or enrich_method: the
\* enrichment is extracted and attached (lines 629-640, 703-728, 815).
EndChunk ==
    /\ epc = "chunks"
    /\ call.state \in {"returned", "raised"}
    /\ attached' = Append(attached,
         [kind |-> Head(work).kind,
          enrichment |-> IF Head(work).kind = "class"
                         THEN enrich_class(call) ELSE enrich_method(call)])
    /\ lastExtract' = IF call.state = "returned" /\ call.result.kind = "response"
                      THEN <<call.result, extract_enriched_data(call.result)>>
                      ELSE lastExtract
    /\ work' = Tail(work)
    /\ call' = NoCall
    /\ UNCHANGED <<loaderVars, diskVars, runVars, parVars, parseVars, composeVars>>
    /\ UNCHANGED <<astIn, mock, template, epc, result, reqs>>

\* The caller of a call_llm_with_retry made on its own hands the result to
\* extract_enriched_data, as lines 628-629 do.
EndDirect ==
    /\ epc = "direct"
    /\ call.state \in {"returned", "raised"}
    /\ epc' = "done"
    /\ lastExtract' = IF call.state = "returned"
                      THEN <<call.result, extract_enriched_data(call.result)>>
                      ELSE lastExtract
    /\ UNCHANGED <<loaderVars, diskVars, runVars, parVars, parseVars, composeVars>>
    /\ UNCHANGED <<astIn, mock, template, work, call, attached, result, reqs>>

\* Lines 818-889: every chunk is enriched, the result is composed, written
\* and returned.
Compose ==
    /\ epc = "chunks"
    /\ work = <<>>
    /\ call.state = "idle"
    /\ epc' = "done"
    /\ result' = [status |-> "returned", file |-> Aggregate(attached),
                  strategy |-> "chunked"]
    /\ UNCHANGED <<loaderVars, diskVars, runVars, parVars, parseVars, composeVars>>
    /\ UNCHANGED <<astIn, mock, template, work, call, attached, lastExtract, reqs>>


(***************************************************************************)
(* The loader on its own: enriched files appear in curated/ and the        *)
(* directory, or one of its files, is handed to ingest_enriched_json.      *)
(***************************************************************************)
InitGraph ==
    /\ nodes = <<>>
    /\ edges = <<>>
    /\ LoadsIdle
    /\ ParseIdle
    /\ ComposeIdle
    /\ ingestCalls = 0
    /\ lastIngest = [seen |-> FALSE, listing |-> {}]
    /\ reingests = 0

InitRunner ==
    /\ runs = 0
    /\ pc = "idle"
    /\ input_path = [exists |-> FALSE, files |-> {}]
    /\ skip_phases = <<>>
    /\ callerSkip = <<>>
    /\ stats = NoStats
    /\ todo = <<>>
    /\ found = [p \in LoopPhases |-> <<>>]
    /\ done = [p \in LoopPhases |-> <<>>]
    /\ executed = <<>>
    /\ threw = {}
    /\ raised = FALSE
    /\ failedPhase = "none"
    /\ graphAtStart = [nodes |-> <<>>, edges |-> <<>>, calls |-> 0]
    /\ saves = 0
    /\ persisted = NotSaved
    /\ exc = <<>>
    /\ interrupted = "none"

InitLoader ==
    /\ InitGraph
    /\ curated = {}
    /\ raw = {}
    /\ staging = [a \in Range(AstUniverse) |-> "none"]
    /\ archive = {}
    /\ InitRunner
    /\ EnrichIdle

\* enrich_ast writes its output file into curated/
WriteEnriched(f) ==
    /\ f \notin curated
    /\ curated' = curated \cup {f}
    /\ UNCHANGED <<nodes, edges, ingestCalls, lastIngest, reingests>>
    /\ UNCHANGED <<parVars, enrichVars, parseVars, composeVars, diskVars, runVars>>

\* ingest_enriched_json(<the curated directory>)
IngestDirectory ==
    /\ ingestCalls < MaxIngests
    /\ LET g == ingest_enriched_json(CuratedDir, curated, Graph)
       IN /\ nodes' = g.nodes
          /\ edges' = g.edges
    /\ ingestCalls' = ingestCalls + 1
    /\ reingests' = IF lastIngest.seen /\ lastIngest.listing = curated
                    THEN reingests + 1 ELSE reingests
    /\ lastIngest' = [seen |-> TRUE, listing |-> curated]
    /\ UNCHANGED <<parVars, enrichVars, parseVars, composeVars, curated, diskVars, runVars>>

\* ingest_enriched_json(<the path of one enriched file>)
IngestFile(f) ==
    /\ ingestCalls < MaxIngests
    /\ f \in curated
    /\ LET g == ingest_enriched_json(FilePath(f), curated, Graph)
       IN /\ nodes' = g.nodes
          /\ edges' = g.edges
    /\ ingestCalls' = ingestCalls + 1
    /\ UNCHANGED <<parVars, enrichVars, parseVars, composeVars, curated, lastIngest, reingests, diskVars, runVars>>

NextLoader ==
    \/ \E f \in Range(EnrichedUniverse) : WriteEnriched(f)
    \/ IngestDirectory
    \/ \E f \in Range(EnrichedUniverse) : IngestFile(f)

SpecLoader == InitLoader /\ [][NextLoader]_vars
(***************************************************************************)
(* The orchestrator's specification: runs follow one another on the same   *)
(* output base.                                                            *)
(***************************************************************************)
Init ==
    /\ InitGraph
    /\ curated = {}
    /\ raw = {}
    /\ staging = [a \in Range(AstUniverse) |-> "none"]
    /\ archive = {}
    /\ InitRunner
    /\ EnrichIdle

Next ==
    \/ \E skip \in SkipLists, inp \in Inputs : StartRun(skip, inp)
    \/ SkipPhase
    \/ ExtractPhase
    \/ ParseBegin
    \/ \E o \in {"nodes", "empty", "raise"} : ParseFile(o)
    \/ ParseEnd
    \/ EnrichBegin
    \/ \E o \in {"ok", "raise", "fallback"} : EnrichFile(o)
    \/ EnrichEnd
    \/ LoadBegin
    \/ LoadFile
    \/ LoadEnd
    \/ \E o \in {"list", "broken", "mkdir"} : ArchiveBegin(o)
    \/ \E o \in {"ok", "copyfail", "delfail"} : ArchiveItem(o)
    \/ ArchiveEnd
    \/ Finalize

Spec == Init /\ [][Next]_vars

(***************************************************************************)
(* The orchestrator under an external interrupt.  KeyboardInterrupt is not *)
(* an Exception: no except clause of the pipeline catches it, and only the *)
(* finally clause of run() acts on its way to the caller.                  *)
(***************************************************************************)
\* KeyboardInterrupt arrives while a phase block of run() is executing
\* (lines 116-159): the statement in progress is abandoned, the finally
\* clause saves the statistics as they are (lines 174-176) and the interrupt
\* leaves run()
Interrupt ==
    /\ pc # "idle"
    /\ interrupted' = pc
    /\ pc' = "idle"
    /\ exc' = <<"KeyboardInterrupt">>
    /\ saves' = saves + 1
    /\ persisted' = SaveRunStats(stats)
    /\ UNCHANGED <<parVars, enrichVars, parseVars, composeVars, loaderVars, diskVars, runs, input_path, skip_phases,
                   callerSkip, stats, todo, found, done, executed, threw,
                   raised, failedPhase, graphAtStart>>

\* KeyboardInterrupt arrives after the last phase block, while the finally
\* clause is inside log_etl_summary's json.dump (logger.py lines 99-100):
\* the with block closes the file on what was written so far, the except
\* Exception clauses of log_etl_summary and _save_run_stats do not apply,
\* and the interrupt leaves run()
InterruptInSave ==
    /\ pc = "finalize"
    /\ stats' = [stats EXCEPT !.status = "SUCCESS", !.end_time = TRUE]
    /\ interrupted' = "save"
    /\ pc' = "idle"
    /\ exc' = <<"KeyboardInterrupt">>
    /\ saves' = saves + 1
    /\ persisted' = [written |-> "partial", data |-> NoStats]
    /\ UNCHANGED <<parVars, enrichVars, parseVars, composeVars, loaderVars, diskVars, runs, input_path, skip_phases,
                   callerSkip, todo, found, done, executed, threw, raised,
                   failedPhase, graphAtStart>>

NextInterrupt ==
    \/ Next
    \/ Interrupt
    \/ InterruptInSave

SpecInterrupt == Init /\ [][NextInterrupt]_vars

(***************************************************************************)
(* Enrichment on its own: enrich_ast over one AST, or one                  *)
(* call_llm_with_retry whose result is handed to extract_enriched_data.    *)
(***************************************************************************)
NextEnrich ==
    \/ \E a \in AstInputs, m \in BOOLEAN, t \in BOOLEAN : EnrichAst(a, m, t)
    \/ \E o \in ServerOutcomes : WholeAst(o)
    \/ BeginChunk
    \/ \E n \in 0..MaxRetries : CallLlmWithRetry(n)
    \/ \E o \in ServerOutcomes : Attempt(o)
    \/ EndChunk
    \/ EndDirect
    \/ Compose

SpecEnrich == Init /\ [][NextEnrich]_vars

(***************************************************************************)
(* Two concurrent loads into an empty store; what the store itself keeps   *)
(* unique is not fixed by the program.                                     *)
(***************************************************************************)
InitConcurrent ==
    /\ nodes = <<>> /\ edges = <<>>
    /\ ingestCalls = 0 /\ reingests = 0
    /\ lastIngest = [seen |-> FALSE, listing |-> {}]
    /\ curated = SharedFiles
    /\ raw = {}
    /\ staging = [a \in Range(AstUniverse) |-> "none"]
    /\ archive = {}
    /\ InitRunner
    /\ EnrichIdle
    /\ loads = [w \in Loaders |-> NoLoad]
    /\ enforced \in SUBSET {"node", "edge"}
    /\ ParseIdle
    /\ ComposeIdle

NextConcurrent ==
    \/ \E w \in Loaders : StartLoad(w)
    \/ \E w \in Loaders : Observe(w)
    \/ \E w \in Loaders : Write(w)

SpecConcurrent == InitConcurrent /\ [][NextConcurrent]_vars

(***************************************************************************)
(* The extractor on its own: one parse tree after another.                 *)
(***************************************************************************)
NextParse ==
    \/ \E src \in Sources : ReadSource(src)
    \/ ParseCsFile

SpecParse == Init /\ [][NextParse]_vars

(***************************************************************************)
(* Two runs on one output base: the first on two source files, the later  *)
(* one on one of them.                                                     *)
(***************************************************************************)
NextRerun ==
    \/ StartRun(<<>>, FirstInput)
    \/ StartLaterRun(<<>>, LaterInput)
    \/ ExtractPhase
    \/ ParseBegin
    \/ \E o \in {"nodes", "empty", "raise"} : ParseFile(o)
    \/ ParseEnd
    \/ EnrichBegin
    \/ \E o \in {"ok", "raise", "fallback"} : EnrichFile(o)
    \/ EnrichEnd
    \/ LoadBegin
    \/ LoadFile
    \/ LoadEnd
    \/ \E o \in {"list", "broken", "mkdir"} : ArchiveBegin(o)
    \/ \E o \in {"ok", "copyfail", "delfail"} : ArchiveItem(o)
    \/ ArchiveEnd
    \/ Finalize

SpecRerun == Init /\ [][NextRerun]_vars

(***************************************************************************)
(* The chunked strategy on whole AST nodes.                                *)
(***************************************************************************)
NextChunked ==
    \/ \E inp \in ChunkInputs : ExtractChunks(inp)
    \/ EnrichChunks
    \/ ComposeOutput

SpecChunked == Init /\ [][NextChunked]_vars

(***************************************************************************)
(* Base types from the source to the graph.                                *)
(***************************************************************************)
NextBases ==
    \/ \E d \in TypeDeclarations : ReadDeclaration(d)
    \/ VisitDeclaration
    \/ LoadExtracted

SpecBases == Init /\ [][NextBases]_vars

(***************************************************************************)
(* Properties of the graph loader (under SpecLoader).                      *)
(***************************************************************************)
RelTypes ==
    {"HAS_MODULE", "HAS_FILE", "HAS_ENTITY", "CONTAINS", "HAS_PARAMETER",
     "RETURNS", "IMPLEMENTS"}

\* C1: a directory ingest that reads the listing the previous directory
\* ingest read, with no write in between, leaves the graph store as it was:
\* no new node and no new edge.
C1_ReloadCreatesNothing ==
    [][reingests' = reingests + 1 => (nodes' = nodes /\ edges' = edges)]_vars

\* The scenario file has been loaded twice in a row into a graph that holds
\* its nine nodes and ten edges.
C1_Witness ==
    /\ reingests >= 1
    /\ CartFile \in lastIngest.listing
    /\ Len(nodes) >= 9 /\ Len(edges) >= 10

\* C2: the graph store holds at most one CodeEntity row per uid, whether the
\* row came from an AST node or is a synthetic Parameter, ReturnType or
\* Interface.
C2_OneEntityPerUid ==
    \A i, j \in 1..Len(nodes) :
        (/\ nodes[i].label = "CodeEntity" /\ nodes[j].label = "CodeEntity"
         /\ nodes[i].uid = nodes[j].uid) => i = j

\* Two files that share the uids Class:C:2 and Interface:IFoo:0 (declared in
\* one, synthetic in the other) have both been loaded, more than once.
C2_Witness ==
    /\ ingestCalls >= 2
    /\ {CartFile, OrderFile} \subseteq lastIngest.listing
    /\ reingests >= 1
    /\ get_or_none(nodes, "CodeEntity", <<"Interface", "IFoo", 0>>) # {}
    /\ get_or_none(nodes, "CodeEntity", <<"Parameter", "Method", "Put", 5, "n">>) # {}

SameEdge(a, b) ==
    /\ a.rel = b.rel
    /\ a.src.label = b.src.label /\ a.src.uid = b.src.uid
    /\ a.dst.label = b.dst.label /\ a.dst.uid = b.dst.uid

\* C3: for every relationship type and every ordered pair of nodes the graph
\* store holds at most one edge of that type between the pair.
C3_OneEdgePerPair ==
    \A i, j \in 1..Len(edges) : SameEdge(edges[i], edges[j]) => i = j

\* Edges of all seven types exist and the inputs have been loaded again.
C3_Witness ==
    /\ reingests >= 1
    /\ \A r \in RelTypes : \E i \in 1..Len(edges) : edges[i].rel = r

(***************************************************************************)
(* Properties of the orchestrator (under Spec).                            *)
(***************************************************************************)
PhaseIndex(p) == CHOOSE i \in 1..Len(Phases) : Phases[i] = p

\* the sequence lists phases in pipeline order, none of them twice
InPhaseOrder(s) ==
    \A i, j \in 1..Len(s) : i < j => PhaseIndex(s[i]) < PhaseIndex(s[j])

RunEnded == runs >= 1 /\ pc = "idle"

\* C4: the phases whose handler is entered are entered in the order extract,
\* parse, enrich, load, archive; when a handler is entered every earlier
\* phase the caller did not skip has completed; a phase of the caller's skip
\* list is never entered; phases_completed is a subsequence of the order.
C4_PhasesInOrder ==
    /\ InPhaseOrder(executed)
    /\ InPhaseOrder(stats.phases_completed)
    /\ \A i \in 1..Len(executed) : ~InSeq(executed[i], callerSkip)
    /\ \A i \in 1..Len(stats.phases_completed) :
           InSeq(stats.phases_completed[i], executed)
    /\ \A i \in 1..Len(executed) : \A k \in 1..Len(Phases) :
           (k < PhaseIndex(executed[i]) /\ ~InSeq(Phases[k], callerSkip))
               => InSeq(Phases[k], stats.phases_completed)

\* A run that skipped enrich and load has entered extract, parse and archive.
C4_Witness ==
    /\ RunEnded
    /\ callerSkip = <<"enrich", "load">>
    /\ executed = <<"extract", "parse", "archive">>

\* C5: once the handler of extract, parse, enrich or load has raised, the
\* run is over: that phase is the last one entered, the status is FAILED and
\* run() has raised ETLPipelineError.
C5_PhaseFailureAborts ==
    failedPhase \in {"extract", "parse", "enrich", "load"} =>
        /\ pc = "idle"
        /\ Last(executed) = failedPhase
        /\ stats.status = "FAILED"
        /\ raised

\* The load phase raised in a run whose caller did not skip archive.
C5_Witness ==
    /\ failedPhase = "load"
    /\ ~InSeq("archive", callerSkip)
    /\ InSeq("extract", stats.phases_completed)

\* the errors list holds an entry of this kind for this file or phase
Recorded(kind, what) ==
    \E i \in 1..Len(stats.errors) : stats.errors[i] = Err(kind, what)

\* the archiver raised, or could not archive an item it listed
ArchiveFailed ==
    \E t \in threw : t[1] \in {"archive mkdir", "archive item"}

\* C6: when the archive phase of a run fails after the earlier phases went
\* through (the archiver raised, or an item it listed could not be archived),
\* run() returns without raising, the status is SUCCESS and the errors list
\* holds an entry for the archive failure.
C6_ArchiveFailureRecorded ==
    (RunEnded /\ ArchiveFailed) =>
        /\ ~raised
        /\ stats.status = "SUCCESS"
        /\ Recorded("phase failed", "archive")

\* C7: in a run whose caller listed load in the skip list the load handler
\* is never entered and ingest_enriched_json is never called, so the graph
\* store stays as it was when the run was constructed; phases_skipped names
\* load and phases_completed does not.
C7_SkippedLoadLeavesGraph ==
    (runs >= 1 /\ InSeq("load", callerSkip)) =>
        /\ ~InSeq("load", executed)
        /\ ingestCalls = graphAtStart.calls
        /\ nodes = graphAtStart.nodes /\ edges = graphAtStart.edges
        /\ InSeq("load", skip_phases)
        /\ ~InSeq("load", stats.phases_completed)

\* A run that skipped load only has ended in SUCCESS with enriched files
\* waiting in curated/ and raw files archived.
C7_Witness ==
    /\ RunEnded
    /\ callerSkip = <<"load">>
    /\ stats.status = "SUCCESS"
    /\ CartFile \in curated
    /\ InSeq("archive", stats.phases_completed)
    /\ skip_phases = <<"load", "load">>

\* the loop of the phase has ended and the code after it has run
LoopDone(p) ==
    /\ InSeq(p, executed)
    /\ found[p] # <<>>
    /\ pc \notin {p, p \o "_loop"}

\* the graph store holds the File node of the enriched file and an entity
\* attached to it
WrittenToGraph(f) ==
    /\ get_or_none(nodes, "File", FileUid(f)) # {}
    /\ \E i \in 1..Len(edges) :
           /\ edges[i].rel = "HAS_ENTITY"
           /\ edges[i].src.label = "File"
           /\ edges[i].src.uid = FileUid(f)

\* C8: once the load phase has run, every enriched file it lists in
\* loaded_files has its File node and entities in the graph store, and
\* files_loaded counts those files.
C8_LoadedFilesAreInGraph ==
    LoopDone("load") =>
        /\ stats.files_loaded = Len(stats.loaded_files)
        /\ \A i \in 1..Len(stats.loaded_files) :
               WrittenToGraph(stats.loaded_files[i])

\* the files of the phase whose processing raised
Threw(p) == {f \in Range(found[p]) : <<p, f>> \in threw}

\* C9: when the processing of a file raises in the parse or the enrich
\* phase, the errors list gets an entry for that file and the loop goes on:
\* every file the phase listed is iterated, every file that neither raised
\* nor was an empty AST is processed, the phase handler does not raise, and
\* the phase is in phases_completed when at least one file was processed.
C9_FileFailureSkipsOnlyThatFile ==
    \A p \in {"parse", "enrich"} :
        /\ \A f \in Threw(p) : Recorded(p, f)
        /\ (LoopDone(p) /\ Threw(p) # {}) =>
              /\ failedPhase # p
              /\ \A f \in Range(found[p]) \ Threw(p) :
                     \/ InSeq(f, done[p])
                     \/ p = "enrich" /\ staging[f] = "empty"
              /\ done[p] # <<>> => InSeq(p, stats.phases_completed)

\* The first file of the parse phase raised, the second was parsed, and the
\* phase completed; the enrich phase had a failing file too.
C9_Witness ==
    /\ RunEnded
    /\ <<"parse", RawCart>> \in threw
    /\ done["parse"] = <<RawAnon>>
    /\ InSeq("parse", stats.phases_completed)
    /\ <<"enrich", AstName(RawAnon)>> \in threw

\* the phase found no input file, or every file it found raised
FailsEntirely(p) ==
    /\ InSeq(p, executed)
    /\ \A f \in Range(found[p]) : <<p, f>> \in threw

\* C10: a parse, enrich or load phase that was entered and failed entirely
\* (no input file, or every file raised) ends the run with status FAILED and
\* without the phase in phases_completed.
C10_TotalFailureIsFatal ==
    \A p \in {"parse", "enrich", "load"} :
        (RunEnded /\ FailsEntirely(p)) =>
            /\ stats.status = "FAILED"
            /\ ~InSeq(p, stats.phases_completed)

C12_InterruptKeepsStatistics ==
    interrupted # "none" =>
        /\ pc = "idle"
        /\ exc = <<"KeyboardInterrupt">>
        /\ persisted.written = "whole"
        /\ persisted.data.phases_completed = stats.phases_completed
        /\ persisted.data.errors = stats.errors
        /\ persisted.data.files_processed = stats.files_processed
        /\ persisted.data.files_enriched = stats.files_enriched

\* the archiver met a failure of any kind
ArchiverFailed ==
    \E t \in threw :
        t[1] \in {"archive mkdir", "archive listing", "archive item"}

\* C13: while the archive phase runs, a file leaves raw/ only in a step
\* after which the archive directory of the run holds its copy: every file
\* that was in raw/ is still there or is in archive/run_<run_id>/.
C13_SourceKeptUntilCopied ==
    [][(pc \in {"archive", "archive_loop"}) =>
          (\A f \in raw : (f \in raw') \/ (<<runs, f>> \in archive'))]_vars

\* The copy of item Shop failed and left it in raw/, while item Tool was
\* copied and removed.
C13_Witness ==
    /\ RunEnded
    /\ <<"archive item", <<"Shop">>>> \in threw
    /\ RawCart \in raw /\ <<runs, RawCart>> \notin archive
    /\ RawAnon \notin raw /\ <<runs, RawAnon>> \in archive

\* C14: a failing copy or removal of one item does not end the archiver's
\* loop and does not make the phase or run() raise: when the loop is over,
\* every item it listed is in the returned list or has its failure noted,
\* and the returned list holds exactly the items that are in the archive
\* directory of the run and no longer in raw/.
C14_ArchiveBatchContinues ==
    LoopDone("archive") =>
        /\ failedPhase # "archive"
        /\ \A item \in Range(found["archive"]) :
              /\ InSeq(item, done["archive"])
                    \/ <<"archive item", <<item>>>> \in threw
              /\ InSeq(item, done["archive"]) <=>
                    /\ ItemFiles(raw, item) = {}
                    /\ \E f \in Range(RawUniverse) :
                           f[1] = item /\ <<runs, f>> \in archive
        /\ Range(done["archive"]) \subseteq Range(found["archive"])

\* The removal of the first item failed after its copy, and the second item
\* was archived all the same.
C14_Witness ==
    /\ RunEnded
    /\ found["archive"] = <<"Shop", "Tool">>
    /\ done["archive"] = <<"Tool">>
    /\ <<runs, RawCart>> \in archive /\ RawCart \in raw
    /\ stats.status = "SUCCESS"

\* C15: after a run whose archive phase listed k >= 1 items of raw/ and met
\* no failure, every file of those items is in archive/run_<run_id>/ and
\* not in raw/, files_archived is k and phases_completed names archive.
C15_ArchiveMovesEverything ==
    (RunEnded /\ found["archive"] # <<>> /\ ~ArchiverFailed) =>
        /\ \A f \in Range(RawUniverse) :
               InSeq(f[1], found["archive"]) =>
                   (f \notin raw /\ <<runs, f>> \in archive)
        /\ stats.files_archived = Len(found["archive"])
        /\ InSeq("archive", stats.phases_completed)

\* A full run has archived both items.
C15_Witness ==
    /\ RunEnded
    /\ callerSkip = <<>>
    /\ found["archive"] = <<"Shop", "Tool">>
    /\ ~ArchiverFailed
    /\ stats.files_archived = 2
    /\ raw = {}

(***************************************************************************)
(* Properties of the enrichment (under SpecEnrich).                        *)
(***************************************************************************)
EnrichmentFields == {"summary", "tags", "dependencies"}

\* C16: whatever the LLM response is (prose, truncated JSON, JSON with null
\* or missing fields, JSON that is not an object, a refusal, an empty or
\* absent response field), the record extract_enriched_data returns has
\* summary, tags and dependencies, and none of them is null.
C16_ExtractedFieldsNonNull ==
    lastExtract # <<>> =>
        \A k \in EnrichmentFields :
            lastExtract[2].rec[k].type \notin {"absent", "null"}

WellTyped(rec) ==
    /\ rec.summary.type = "string"
    /\ rec.tags.type = "array"
    /\ rec.dependencies.type = "array"

\* C17: once enrich_ast has returned, the file-level record and every
\* enrichment record attached to a class or a method have a string summary
\* and tags and dependencies that are collections of strings, whatever the
\* LLM answered and however it failed.
C17_EnrichmentWellTyped ==
    result.status = "returned" =>
        /\ WellTyped(result.file)
        /\ \A i \in 1..Len(attached) : WellTyped(attached[i].enrichment)

HasFields(rec) == \A k \in EnrichmentFields : rec[k].type \notin {"absent", "null"}

\* C18: when every LLM request enrich_ast issued has failed (connection
\* error, timeout, HTTP error or unparsable body), enrich_ast has returned,
\* not raised, and its result carries summary, tags and dependencies, as do
\* the records attached to the chunks; this holds for an AST with method
\* chunks and for one without.
C18_LlmOutageStillReturns ==
    (epc = "done" /\ result.status # "none" /\ reqs.issued /\ reqs.allFailed) =>
        /\ result.status = "returned"
        /\ HasFields(result.file)
        /\ \A i \in 1..Len(attached) : HasFields(attached[i].enrichment)
        /\ MethodChunks(astIn) # <<>> <=> result.strategy = "chunked"

\* An AST with a method chunk, every request failed: the class and the
\* method carry the fallback record.
C18_Witness ==
    /\ result.status = "returned"
    /\ reqs.issued /\ reqs.allFailed
    /\ MethodChunks(astIn) # <<>>
    /\ Len(attached) = 2
    /\ \A i \in 1..2 : attached[i].enrichment = FallbackObj

\* An AST without method chunks, the one request failed.
C18_WitnessWholeAst ==
    /\ result.status = "returned"
    /\ reqs.issued /\ reqs.allFailed
    /\ astIn # <<>> /\ MethodChunks(astIn) = <<>>
    /\ result.file.summary = JStr("No response generated")

RECURSIVE Backoff(_)
Backoff(k) == IF k = 0 THEN <<>> ELSE Append(Backoff(k - 1), 2 ^ (k - 1))

Min(a, b) == IF a < b THEN a ELSE b

\* The part of C19 that is about requests and waits: at most max_retries
\* requests, none after the accepted one, and after the failed attempt k a
\* wait of 2^k seconds exactly when attempt k + 1 follows.
RetryDiscipline ==
    /\ call.requests <= call.n
    /\ call.accepted => call.state = "returned"
    /\ call.state = "running" => call.requests = call.attempt
    /\ call.waits = Backoff(Min(call.attempt, IF call.n = 0 THEN 0 ELSE call.n - 1))

\* C19: call_llm_with_retry(prompt, max_retries = n) issues at most n
\* requests, none after the first accepted response, waits 2^k seconds
\* after the failed attempt k only when another attempt follows, and always
\* returns: it never leaves by an exception.
C19_RetryBoundedAndReturns ==
    /\ RetryDiscipline
    /\ call.state # "raised"

\* call_llm_with_retry was called on its own and every attempt has failed.
AllAttemptsFailed ==
    /\ epc = "done"
    /\ call.state = "returned"
    /\ ~call.accepted

C21_MockModeIssuesNoRequest ==
    (mock /\ epc \in {"whole", "chunks", "done"}) => ~reqs.issued

EntityRef(uid) == Ref("CodeEntity", uid)

HasEntity(uid) == get_or_none(nodes, "CodeEntity", uid) # {}

HasEdge(rel, src, dst) == is_connected(edges, rel, EntityRef(src), EntityRef(dst))

\* The files of EnrichedUniverse with a node that lacks its type or its
\* name, and the regular class D each of them declares after that node.
MalformedFiles == {BadFile, AnonFile}

\* C23: a node without type or name is skipped by every pass of the loader
\* and does not make the load of its file fail, also when it carries
\* baseTypes or is a Method: once a directory ingest has read such a file,
\* the regular class that follows the malformed node in it is in the graph
\* store with its IMPLEMENTS edge.
C23_MalformedNodeSkipped ==
    \A f \in MalformedFiles :
        (lastIngest.seen /\ f \in lastIngest.listing) =>
            /\ HasEntity(<<"Class", "D", 9>>)
            /\ HasEntity(<<"Interface", "IBaz", 0>>)
            /\ HasEdge("IMPLEMENTS", <<"Class", "D", 9>>, <<"Interface", "IBaz", 0>>)

\* _process_single_file has run on the file: its File row is in the store
Loaded(f) == get_or_none(nodes, "File", FileUid(f)) # {}

\* the nodes collect_all_nodes finds in the file
Declarations(f) == CollectRoots(Get(EnrichedContent(f), "ast", <<>>))

\* the uids of the nested children of a declaration
ChildUids(c) ==
    LET kids == ChildrenOf(c, <<"body", "members", "statements">>)
    IN {AstUid(kids[i]) : i \in {j \in 1..Len(kids) :
                                    Has(kids[j], "type") /\ Has(kids[j], "name")}}

\* a named class whose nested children are methods with distinct uids
MethodsOnly(c) ==
    LET kids == ChildrenOf(c, <<"body", "members", "statements">>)
    IN /\ Get(c, "type", "") = "Class" /\ Get(c, "name", "") # ""
       /\ \A i \in 1..Len(kids) :
            Get(kids[i], "type", "") = "Method" /\ Get(kids[i], "name", "") # ""
       /\ \A i, j \in 1..Len(kids) : AstUid(kids[i]) = AstUid(kids[j]) => i = j

MethodCount(c) == Len(ChildrenOf(c, <<"body", "members", "statements">>))

\* the CONTAINS edges that leave the entity, and the uids they reach
ContainsFrom(uid) ==
    {i \in 1..Len(edges) :
        edges[i].rel = "CONTAINS" /\ edges[i].src = EntityRef(uid)}

ContainsTargets(uid) == {edges[i].dst.uid : i \in ContainsFrom(uid)}

\* the loaded declarations that share the uid
LoadedWithUid(uid) ==
    UNION {{d \in Range(Declarations(f)) :
                Has(d, "type") /\ Has(d, "name") /\ AstUid(d) = uid} :
           f \in {g \in Range(EnrichedUniverse) : Loaded(g)}}

\* C24 as stated: after a class whose nested children are exactly N methods
\* with distinct uids has been loaded, exactly N CONTAINS edges leave the
\* class entity, one to each method entity.
C24_ContainsPerClass ==
    \A f \in Range(EnrichedUniverse) : \A c \in Range(Declarations(f)) :
        (Loaded(f) /\ MethodsOnly(c)) =>
            /\ Cardinality(ContainsFrom(AstUid(c))) = MethodCount(c)
            /\ ContainsTargets(AstUid(c)) = ChildUids(c)

\* C24, amended: the CONTAINS edges that leave a class entity are one per
\* child uid over all the loaded declarations that have the class's uid; they
\* are exactly the N edges to the class's N methods when no other loaded
\* declaration shares the uid.
C24_ContainsPerUid ==
    \A f \in Range(EnrichedUniverse) : \A c \in Range(Declarations(f)) :
        (Loaded(f) /\ MethodsOnly(c)) =>
            LET uid == AstUid(c)
                all == UNION {ChildUids(d) : d \in LoadedWithUid(uid)}
            IN /\ ContainsTargets(uid) = all
               /\ Cardinality(ContainsFrom(uid)) = Cardinality(all)
               /\ \A u \in all : HasEntity(u)
               /\ (\A d \in LoadedWithUid(uid) : ChildUids(d) = ChildUids(c)) =>
                    /\ Cardinality(ContainsFrom(uid)) = MethodCount(c)
                    /\ ContainsTargets(uid) = ChildUids(c)

\* The class with the two methods Put and Get has been loaded, the other
\* declaration of its uid has not: two CONTAINS edges leave Class:C:2.
C24_Witness ==
    /\ Loaded(OrderFile) /\ ~Loaded(CartFile)
    /\ Cardinality(ContainsFrom(<<"Class", "C", 2>>)) = 2
    /\ ContainsTargets(<<"Class", "C", 2>>) =
            {<<"Method", "Put", 5>>, <<"Method", "Get", 3>>}

\* the uids of the CodeEntity rows of a type
EntitiesOfType(t) ==
    {nodes[i].uid : i \in {j \in 1..Len(nodes) :
                              nodes[j].label = "CodeEntity" /\ nodes[j].type = t}}

\* the (source uid, target uid) pairs of the edges of a relationship type
EdgePairs(rel) ==
    {<<edges[i].src.uid, edges[i].dst.uid>> :
        i \in {j \in 1..Len(edges) : edges[j].rel = rel}}

\* the positions of the rows with that uid
EntityRows(uid) == get_or_none(nodes, "CodeEntity", uid)

\* the files _process_single_file has run on are exactly those of the set
OnlyLoaded(files) == \A f \in Range(EnrichedUniverse) : Loaded(f) <=> f \in files

ScenarioC == <<"Class", "C", 2>>
ScenarioGet == <<"Method", "Get", 3>>
ScenarioA == <<"Parameter", "Method", "Get", 3, "a">>
ScenarioInt == <<"ReturnType", "int">>
ScenarioIFoo == <<"Interface", "IFoo", 0>>

\* C25: once the enriched AST of namespace N { public class C : IFoo
\* { public int Get(string a) } } is the only file loaded into the store, the
\* store holds exactly one Class entity (C, public), one Method entity (Get),
\* one Parameter entity (a), one ReturnType entity (int) and one Interface
\* entity (IFoo), exactly one CONTAINS edge leaves C (to Get), and there is
\* exactly one HAS_PARAMETER edge (Get to a), one RETURNS edge (Get to int)
\* and one IMPLEMENTS edge (C to IFoo), each stored once.
C25_EndToEndScenario ==
    OnlyLoaded({CartFile}) =>
        /\ EntitiesOfType("Class") = {ScenarioC}
        /\ EntitiesOfType("Method") = {ScenarioGet}
        /\ EntitiesOfType("Parameter") = {ScenarioA}
        /\ EntitiesOfType("ReturnType") = {ScenarioInt}
        /\ EntitiesOfType("Interface") = {ScenarioIFoo}
        /\ \A u \in {ScenarioC, ScenarioGet, ScenarioA, ScenarioInt, ScenarioIFoo} :
                Cardinality(EntityRows(u)) = 1
        /\ \A i \in EntityRows(ScenarioC) : nodes[i].name = "C" /\ nodes[i].access_modifier = "public"
        /\ \A i \in EntityRows(ScenarioGet) : nodes[i].name = "Get"
        /\ \A i \in EntityRows(ScenarioA) : nodes[i].name = "a"
        /\ \A i \in EntityRows(ScenarioInt) : nodes[i].name = "int"
        /\ \A i \in EntityRows(ScenarioIFoo) : nodes[i].name = "IFoo"
        /\ ContainsTargets(ScenarioC) = {ScenarioGet}
        /\ Cardinality(ContainsFrom(ScenarioC)) = 1
        /\ EdgePairs("HAS_PARAMETER") = {<<ScenarioGet, ScenarioA>>}
        /\ EdgePairs("RETURNS") = {<<ScenarioGet, ScenarioInt>>}
        /\ EdgePairs("IMPLEMENTS") = {<<ScenarioC, ScenarioIFoo>>}
        /\ \A rel \in {"HAS_PARAMETER", "RETURNS", "IMPLEMENTS"} :
                Cardinality({i \in 1..Len(edges) : edges[i].rel = rel}) = 1

\* The scenario file alone has been loaded, by a directory ingest, and its
\* nine rows and ten edges are in the store.
C25_Witness ==
    /\ OnlyLoaded({CartFile})
    /\ lastIngest.seen /\ lastIngest.listing = {CartFile}
    /\ Len(nodes) = 9 /\ Len(edges) = 10
    /\ HasEdge("IMPLEMENTS", ScenarioC, ScenarioIFoo)

(***************************************************************************)
(* Properties of concurrent loads (under SpecConcurrent).                  *)
(***************************************************************************)
\* two ops ask for, and write, the same row or the same edge
SameTarget(a, b) ==
    /\ a.kind = b.kind
    /\ IF a.kind = "node" THEN a.label = b.label /\ a.uid = b.uid
       ELSE /\ a.rel = b.rel
            /\ a.src.label = b.src.label /\ a.src.uid = b.src.uid
            /\ a.dst.label = b.dst.label /\ a.dst.uid = b.dst.uid

\* the workers that have issued the save or connect of the op's target
WritersOf(op) ==
    {w \in Loaders :
        \E i \in loads[w].wrote : SameTarget(Ops(loads[w].file)[i], op)}

\* the rows or edges the store holds for the op's target
Copies(op) ==
    IF op.kind = "node" THEN Cardinality(get_or_none(nodes, op.label, op.uid))
    ELSE Cardinality({i \in 1..Len(edges) :
                        is_connected(<<edges[i]>>, op.rel, op.src, op.dst)})

\* the workers that have observed the target absent and not yet written it
Pending(op) ==
    {w \in Loaders :
        /\ loads[w].phase = "write"
        /\ SameTarget(Ops(loads[w].file)[loads[w].i], op)}

\* C26: the check and the write of a get-or-create are separate steps, so
\* two loads can both observe a row or an edge absent and both write it.
\* The store then holds one copy per worker that wrote, two when both did,
\* unless the store itself keeps that kind of write unique, in which case it
\* holds one; a copy is never there without a worker having written it.
C26_CheckThenWriteRace ==
    \A f \in SharedFiles : \A k \in 1..Len(Ops(f)) :
        LET op == Ops(f)[k]
            n == Cardinality(WritersOf(op))
        IN /\ Copies(op) = IF op.kind \in enforced THEN Min(n, 1) ELSE n
           /\ (op.checked /\ Cardinality(Pending(op)) = 2) => n = 0

ClassDOp == NodeOp("CodeEntity", <<"Class", "D", 9>>, <<>>)
ImplementsOp ==
    EdgeOp("IMPLEMENTS", EntityRef(<<"Class", "D", 9>>),
           EntityRef(<<"Interface", "IBaz", 0>>))

\* Two loads of files that share the uid Class:D:9 have completed on a
\* store that keeps nothing unique: both wrote the class row and both wrote
\* the IMPLEMENTS edge, and the store holds two of each.
C26_Witness ==
    /\ enforced = {}
    /\ loads[1].phase = "done" /\ loads[2].phase = "done"
    /\ loads[1].file = LeftFile /\ loads[2].file = RightFile
    /\ WritersOf(ClassDOp) = Loaders /\ Copies(ClassDOp) = 2
    /\ WritersOf(ImplementsOp) = Loaders /\ Copies(ImplementsOp) = 2

\* The same race on a store that enforces the unique index on uid: both
\* workers issued the save of the class row and the store holds one.
C26_WitnessRejected ==
    /\ "node" \in enforced
    /\ WritersOf(ClassDOp) = Loaders /\ Copies(ClassDOp) = 1

(***************************************************************************)
(* Further properties of the orchestrator (under Spec).                    *)
(***************************************************************************)
\* C27: in a run whose input path does not exist, no phase is added to
\* phases_completed, the handlers of parse, enrich, load and archive are
\* never entered, and run() ends by raising; also when the caller listed
\* extract in the skip list.
C27_MissingInputSurfaced ==
    (runs >= 1 /\ ~input_path.exists) =>
        /\ stats.phases_completed = <<>>
        /\ \A p \in LoopPhases : ~InSeq(p, executed)
        /\ RunEnded => raised

(***************************************************************************)
(* Further properties of the enrichment (under SpecEnrich).                *)
(***************************************************************************)
\* the response carries a text that json.loads rejects
InvalidJson(raw_resp) ==
    /\ raw_resp.kind = "response"
    /\ raw_resp.text.form # "empty"
    /\ json_loads(raw_resp.text).type = "none"

NotAJson == <<"not", "a", "json">>

DirectlyParsable(text) ==
    /\ json_loads(text).type = "object"
    /\ \/ json_loads(text).fields.summary.type # "absent"
       \/ json_loads(text).fields.tags.type # "absent"

\* the text holds one of the refusal phrases
Refuses(text) == \E p \in refusal_patterns : Contains(p, text.words)

\* C31: extract_enriched_data parses the raw text directly before it looks
\* for refusal phrases: whenever the text of the response is a valid JSON
\* object with a summary or a tags key, the record returned is that object
\* with its missing fields defaulted, also when the text holds a refusal
\* phrase such as "no code" or "i cannot".
C31_DirectParseBeforeRefusal ==
    (/\ lastExtract # <<>>
     /\ lastExtract[1].kind = "response"
     /\ DirectlyParsable(lastExtract[1].text)) =>
        /\ lastExtract[2].path = "direct"
        /\ lastExtract[2].rec =
             SetDefaults(json_loads(lastExtract[1].text).fields,
                         JStr(""), JList(<<>>), JList(<<>>))

\* C31 restricted to texts without a refusal phrase (what the code does)
C31_DirectParseWithoutRefusal ==
    (/\ lastExtract # <<>>
     /\ lastExtract[1].kind = "response"
     /\ DirectlyParsable(lastExtract[1].text)
     /\ ~Refuses(lastExtract[1].text)) =>
        /\ lastExtract[2].path = "direct"
        /\ lastExtract[2].rec =
             SetDefaults(json_loads(lastExtract[1].text).fields,
                         JStr(""), JList(<<>>), JList(<<>>))

(***************************************************************************)
(* Properties of the structural extractor (under SpecParse).               *)
(***************************************************************************)
\* the constructs of a tree, each with the constructs that enclose it,
\* outermost first
RECURSIVE Flat(_, _)
Flat(children, enclosing) ==
    IF children = <<>> THEN {}
    ELSE LET t == Head(children)
             here == [line |-> t.line, rule |-> t.rule]
         IN {[line |-> t.line, rule |-> t.rule, enclosing |-> enclosing]}
              \cup Flat(t.children, Append(enclosing, here))
              \cup Flat(Tail(children), enclosing)

\* the constructs the extractor has a node for
Extractable(c) == c.rule \in ContainerRules \cup MemberRules

EmittedLines == {ast_out.nodes[i].line : i \in 1..Len(ast_out.nodes)}

\* neither the construct nor a construct around it failed
Unaffected(c) ==
    /\ c.line \notin source.failing
    /\ \A i \in 1..Len(c.enclosing) : c.enclosing[i].line \notin source.failing

\* C29: whatever constructs fail, parse_cs_file returns a node for every
\* construct that did not fail and lies in no construct that failed: the
\* siblings of a failed construct are still extracted.
C29_FailureIsLocal ==
    ast_out.done =>
        \A c \in Flat(source.tree, <<>>) :
            (Extractable(c) /\ Unaffected(c)) => c.line \in EmittedLines

\* the line of the innermost container around the construct, 0 for none
InnermostContainer(c) ==
    LET idx == {i \in 1..Len(c.enclosing) : c.enclosing[i].rule \in ContainerRules}
    IN IF idx = {} THEN 0
       ELSE c.enclosing[CHOOSE i \in idx : \A j \in idx : j <= i].line

\* C30: when no construct fails, every emitted node is attached to the
\* innermost container that encloses its construct in the parse tree, and to
\* the Program node only when none does.
C30_AttachedToInnermost ==
    (ast_out.done /\ source.failing = {}) =>
        \A i \in 1..Len(ast_out.nodes) :
            \A c \in Flat(source.tree, <<>>) :
                c.line = ast_out.nodes[i].line =>
                    ast_out.nodes[i].container = InnermostContainer(c)

(***************************************************************************)
(* Write failures of the loader (under SpecConcurrent): the failing write  *)
(* is the save the store refuses because the uid is taken.                 *)
(***************************************************************************)
\* the op at which a load was abandoned
AbandonedAt(w) == Ops(loads[w].file)[loads[w].i]

\* the load has passed the Project, Module and File rows and is in one of
\* the four passes
InPass(w) == loads[w].i > Len(ContainerOps(loads[w].file))

\* C32: a write that fails in a loader pass (entity, containment, signature,
\* interface) is confined to its entity or edge: the load is never
\* abandoned with an exception, it goes on to the remaining entities and
\* edges of the file.
C32_WriteFailureConfined ==
    \A w \in Loaders : ~(loads[w].phase = "raised" /\ InPass(w))

\* the part of C32 the code does keep: a save refused in the entity pass
\* is caught there, so a load is never abandoned at an op of that pass
C32_EntityPassConfined ==
    \A w \in Loaders :
        loads[w].phase = "raised" =>
            /\ AbandonedAt(w).onReject # "continue"
            /\ loads[w].i - 1 \in loads[w].wrote =>
                   Ops(loads[w].file)[loads[w].i - 1].onReject # "continue"

(***************************************************************************)
(* Properties of the base types (under SpecBases).                         *)
(***************************************************************************)
DeclaredUid == <<NodeType(declared.rule), declared.name, declared.line>>

\* the synthetic Interface entity of a base name and the IMPLEMENTS edge
\* to it from the declared entity, one of each
ImplementsBase(b) ==
    /\ Cardinality(get_or_none(nodes, "CodeEntity", <<"Interface", b, 0>>)) = 1
    /\ Cardinality({ i \in 1..Len(edges) :
                       /\ edges[i].rel = "IMPLEMENTS"
                       /\ edges[i].src = EntityRef(DeclaredUid)
                       /\ edges[i].dst = EntityRef(<<"Interface", b, 0>>) }) = 1

\* C33: once the file of an extracted class, interface or struct that
\* declares bases has been loaded, the graph holds one synthetic Interface
\* entity and one IMPLEMENTS edge from the entity for every base-type name
\* the declaration lists.
C33_ImplementsPerDeclaredBase ==
    extracted.loaded =>
        \A b \in Range(declared.bases) : ImplementsBase(b)

\* the part of C33 the code keeps: the first base of a class
C33_ImplementsFirstClassBase ==
    (extracted.loaded /\ declared.rule = "class" /\ declared.bases # <<>>) =>
        /\ ~extracted.raised
        /\ ImplementsBase(declared.bases[1])

(***************************************************************************)
(* Colliding uids (under SpecLoader).                                      *)
(***************************************************************************)
\* the declarations of a file that the entity pass gives an entity
Entities(f) ==
    SelectSeq(Declarations(f),
              LAMBDA n : Get(n, "type", "") # "" /\ Get(n, "name", "") # "")

\* the place of the File row of a loaded file in the store
FileRow(f) == CHOOSE i \in get_or_none(nodes, "File", FileUid(f)) : TRUE

SameKey(a, b) ==
    /\ a.type = b.type /\ a.name = b.name
    /\ Get(a, "startLine", 0) = Get(b, "startLine", 0)

\* C34: the uid of an entity is a function of kind, name and startLine
\* only, so when two distinct loaded files each hold a node with the same
\* kind, name and startLine, the two nodes have one uid, the graph holds
\* one CodeEntity for it, with the properties written by the file loaded
\* first, and a HAS_ENTITY edge to it from each of the two File nodes.
C34_SameKeyOneEntity ==
    \A f, g \in Range(EnrichedUniverse) :
        (f # g /\ Loaded(f) /\ Loaded(g) /\ FileRow(f) < FileRow(g)) =>
            \A i \in 1..Len(Entities(f)) : \A j \in 1..Len(Entities(g)) :
                LET a == Entities(f)[i]
                    b == Entities(g)[j]
                IN SameKey(a, b) =>
                     /\ AstUid(a) = AstUid(b)
                     /\ Cardinality(EntityRows(AstUid(a))) = 1
                     /\ \A r \in EntityRows(AstUid(a)) :
                          /\ nodes[r].summary = EntityRow(a, AstUid(a)).summary
                          /\ nodes[r].access_modifier =
                               EntityRow(a, AstUid(a)).access_modifier
                          /\ nodes[r].signature = EntityRow(a, AstUid(a)).signature
                     /\ is_connected(edges, "HAS_ENTITY", Ref("File", FileUid(f)),
                                     EntityRef(AstUid(a)))
                     /\ is_connected(edges, "HAS_ENTITY", Ref("File", FileUid(g)),
                                     EntityRef(AstUid(a)))

\* Order.json, then Cart.json have been loaded: both declare a class C on
\* line 2; the one entity Class:C:2 has the summary and the access modifier
\* of Order.json and is an entity of both files.
C34_Witness ==
    /\ Loaded(OrderFile) /\ Loaded(CartFile)
    /\ FileRow(OrderFile) < FileRow(CartFile)
    /\ Cardinality(EntityRows(<<"Class", "C", 2>>)) = 1
    /\ \A r \in EntityRows(<<"Class", "C", 2>>) :
          nodes[r].summary = "order" /\ nodes[r].access_modifier = "internal"
    /\ is_connected(edges, "HAS_ENTITY", Ref("File", FileUid(OrderFile)),
                    EntityRef(<<"Class", "C", 2>>))
    /\ is_connected(edges, "HAS_ENTITY", Ref("File", FileUid(CartFile)),
                    EntityRef(<<"Class", "C", 2>>))

(***************************************************************************)
(* Further properties of the structural extractor (under SpecParse).       *)
(***************************************************************************)
\* the lines of the containers around a construct: the containers whose
\* visit is in progress while the construct is visited
ActiveContainers(c) ==
    { c.enclosing[i].line :
        i \in { j \in 1..Len(c.enclosing) : c.enclosing[j].rule \in ContainerRules } }

\* C35: when the visit of a container ends, normally or through an
\* exception caught at its boundary, the current-container references are
\* what they were before it, so no node visited later is attached to a
\* container that has been left: every emitted node is attached to the
\* Program node or to a container around its own construct.
C35_LeftContainerNotCurrent ==
    ast_out.done =>
        \A i \in 1..Len(ast_out.nodes) :
            \A c \in Flat(source.tree, <<>>) :
                c.line = ast_out.nodes[i].line =>
                    ast_out.nodes[i].container \in {0} \cup ActiveContainers(c)

\* C35 for the visits that end normally or fail before the container is
\* entered (no typed member raises)
C35_RestoredOnNormalExit ==
    (/\ ast_out.done
     /\ \A c \in Flat(source.tree, <<>>) :
           c.line \in source.failing => c.rule # "typed_member") =>
        \A i \in 1..Len(ast_out.nodes) :
            \A c \in Flat(source.tree, <<>>) :
                c.line = ast_out.nodes[i].line =>
                    ast_out.nodes[i].container \in {0} \cup ActiveContainers(c)

(***************************************************************************)
(* Runs that share an output base (under SpecRerun).                       *)
(***************************************************************************)
\* the AST files and the enriched files made from the inputs of the run
OwnAst == { AstName(f) : f \in input_path.files }
OwnEnriched == { EnrichedName(a) : a \in OwnAst }

\* C36: in every run on a shared output base, the files the Enrich phase
\* lists and enriches are AST files made from that run's inputs, and the
\* files the Load phase lists and loads are enriched files made from them:
\* what an earlier run left in staging/ast and curated is not taken up again.
C36_OnlyOwnFilesConsumed ==
    /\ Range(found["enrich"]) \subseteq OwnAst
    /\ Range(done["enrich"]) \subseteq OwnAst
    /\ Range(found["load"]) \subseteq OwnEnriched
    /\ Range(done["load"]) \subseteq OwnEnriched

(***************************************************************************)
(* Properties of the chunked strategy (under SpecChunked).                 *)
(***************************************************************************)
\* the nodes of an AST, each before the nodes of its body
RECURSIVE FlatNodes(_)
FlatNodes(ns) ==
    IF ns = <<>> THEN <<>>
    ELSE <<Head(ns)>> \o FlatNodes(Head(ns).body) \o FlatNodes(Tail(ns))

NodeKey(n) == <<n.type, n.name, n.startLine>>
Keys(ns) == { NodeKey(FlatNodes(ns)[i]) : i \in 1..Len(FlatNodes(ns)) }

\* the class chunk k has a node in the output AST that carries the record
\* enrich_class returned for it
CarriesEnrichment(k) ==
    \E i \in 1..Len(FlatNodes(chunkOut.ast)) :
        LET n == FlatNodes(chunkOut.ast)[i]
        IN /\ NodeKey(n) = <<"Class", chunkOut.chunks.class_chunks[k].name,
                              chunkOut.chunks.class_chunks[k].startLine>>
           /\ Has(n, "enrichment")
           /\ n.enrichment = chunkIn.answers[k]

\* C37: the chunked strategy keeps the structure of the AST: every node of
\* the input AST (fields, properties, constructors and events of a class
\* body included) is a node of the "ast" of the output, and every class
\* chunk that was enriched carries its enrichment record there, whether or
\* not the class is inside a namespace.
C37_StructurePreserved ==
    chunkOut.step = "done" =>
        /\ Keys(chunkIn.ast) \subseteq Keys(chunkOut.ast)
        /\ \A k \in 1..Len(chunkOut.chunks.class_chunks) : CarriesEnrichment(k)

\* C37 for a namespace of classes with different names and methods only
C37_RegularAstPreserved ==
    (chunkOut.step = "done" /\ chunkIn.ast = RegularAst) =>
        /\ Keys(chunkIn.ast) \subseteq Keys(chunkOut.ast)
        /\ \A k \in 1..Len(chunkOut.chunks.class_chunks) : CarriesEnrichment(k)

\* how often enrich_method was called on a method chunk
TimesEnriched(mc) ==
    Cardinality({ i \in 1..Len(chunkOut.calls) : chunkOut.calls[i] = mc })

\* C38: each method chunk is enriched exactly once, and in the output AST
\* the body of a class holds the methods of that class only and the class
\* carries the enrichment record of its own chunk, also when two classes in
\* different namespaces have the same name.
C38_MethodsStayWithTheirClass ==
    chunkOut.step \in {"enriched", "done"} =>
        /\ \A i \in 1..Len(chunkOut.chunks.method_chunks) :
              TimesEnriched(chunkOut.chunks.method_chunks[i]) = 1
        /\ \A k \in 1..Len(chunkOut.enriched_classes) :
              Keys(chunkOut.enriched_classes[k].body)
                = Keys(MethodsOf(ChunkedClasses(chunkIn.ast)[k].body))
        /\ chunkOut.step = "done" =>
              \A k \in 1..Len(ChunkedClasses(chunkOut.ast)) :
                 LET out == ChunkedClasses(chunkOut.ast)[k]
                     in == ChunkedClasses(chunkIn.ast)[k]
                 IN /\ Keys(MethodsOf(out.body)) \subseteq Keys(MethodsOf(in.body))
                    /\ Has(out, "enrichment") => out.enrichment = chunkIn.answers[k]

\* C38 when no two classes share a name
C38_DistinctNamesStayApart ==
    (chunkOut.step \in {"enriched", "done"} /\ chunkIn.ast # SameNameAst) =>
        /\ \A i \in 1..Len(chunkOut.chunks.method_chunks) :
              TimesEnriched(chunkOut.chunks.method_chunks[i]) = 1
        /\ \A k \in 1..Len(chunkOut.enriched_classes) :
              Keys(chunkOut.enriched_classes[k].body)
                = Keys(MethodsOf(ChunkedClasses(chunkIn.ast)[k].body))

\* C39: the file-level record of the chunked output is aggregated from the
\* class-level records: tags is the union of the classes' tags,
\* dependencies the union of their dependencies, and summary joins the
\* summaries of the classes that have one, whenever some class has one.
C39_FileRecordAggregatesClasses ==
    chunkOut.step = "done" =>
        LET having == SelectSeq([k \in 1..Len(chunkIn.answers) |->
                                   <<chunkOut.chunks.class_chunks[k].name,
                                     chunkIn.answers[k].summary>>],
                                LAMBDA p : p[2] # "")
        IN /\ chunkOut.file.tags =
                UNION { Range(chunkIn.answers[k].tags) : k \in 1..Len(chunkIn.answers) }
           /\ chunkOut.file.dependencies =
                UNION { Range(chunkIn.answers[k].dependencies) :
                          k \in 1..Len(chunkIn.answers) }
           /\ having # <<>> => chunkOut.file.summary = having

\* what the code computes: the file-level record never depends on the
\* class-level records
C39_FileRecordIsConstant ==
    chunkOut.step = "done" =>
        chunkOut.file = Meta(<<"C# code analysis">>, {}, {})

(***************************************************************************)
(* The two phase lists of a successful run (under Spec).                   *)
(***************************************************************************)
\* how often phase p occurs in the list s
TimesListed(p, s) == Cardinality({i \in 1..Len(s) : s[i] = p})

\* stats['phases_skipped'] is the list self.skip_phases
ListedOnce(p) ==
    TimesListed(p, stats.phases_completed) + TimesListed(p, skip_phases) = 1

\* C40: when run() has returned with status SUCCESS, each of the five phases
\* is in exactly one of phases_completed and phases_skipped, exactly once,
\* and the skip list the caller passed still has the content it was passed
\* with.
C40_PhasesPartitioned ==
    stats.status = "SUCCESS" =>
        /\ \A p \in Range(Phases) : ListedOnce(p)
        /\ skip_phases = callerSkip

\* C40, the part that holds: a successful run with no phase to skip that
\* archived at least one item lists each phase once, as completed.
C40_FullRunListsEachPhaseOnce ==
    (stats.status = "SUCCESS" /\ callerSkip = <<>>
        /\ InSeq("archive", stats.phases_completed)) =>
        /\ \A p \in Range(Phases) : ListedOnce(p)
        /\ skip_phases = callerSkip

====
